---- MODULE Spec2Model ----
(***************************************************************************)
(* The rules engine of the oshi-game test-play application: the session    *)
(* held by GameProvider and the operations the provider exposes, each      *)
(* modelled as the provider function together with the gameReducer case    *)
(* it dispatches.                                                          *)
(*                                                                         *)
(* Identifiers.  Player ids are the strings of createTestPlayers.  A piece *)
(* id is a number: piece j of player k ("p<k>-otaku<j>") is 10*k + j, and  *)
(* the clone `${originalPieceId}-kage-${Date.now()}` of piece i made at    *)
(* time t is 10*i + t.  An absent optional field is "undefined" (strings)  *)
(* or NoSpot (spot ids).                                                   *)
(***************************************************************************)
EXTENDS Integers, Sequences, FiniteSets, TLC

VARIABLES
    money,                \* Player.money, by player id
    points,               \* Player.points, by player id
    otakuPieces,          \* Player.otakuPieces, by player id
    selectedRewardCard,   \* Player.selectedRewardCard, by player id
    oshikatsuDecision,    \* Player.oshikatsuDecision, by player id
    currentRound,         \* GameSession.currentRound
    currentPhase,         \* GameSession.currentPhase
    activePlayerIndex,    \* GameSession.activePlayerIndex (0-based)
    spots,                \* gameState.hanamichiBoardState.spots, by spot id
    oshiPieces,           \* gameState.oshiPieces, by oshi id
    revealedCards,        \* gameState.revealedCards
    roundHistory,         \* gameState.roundHistory
    currentDiceResult,    \* gameState.currentDiceResult
    phaseActions,         \* turnManager.phaseActions
    waitingForPlayers,    \* turnManager.waitingForPlayers
    currentPlayer         \* turnManager.currentPlayer

playerVars == <<money, points, otakuPieces, selectedRewardCard, oshikatsuDecision>>
turnVars == <<phaseActions, waitingForPlayers, currentPlayer>>
boardVars == <<spots, oshiPieces, revealedCards>>
vars == <<money, points, otakuPieces, selectedRewardCard, oshikatsuDecision,
          currentRound, currentPhase, activePlayerIndex, spots, oshiPieces,
          revealedCards, roundHistory, currentDiceResult, phaseActions,
          waitingForPlayers, currentPlayer>>

----------------------------------------------------------------------------
(* Program constants *)

NoSpot == -1
Undefined == "undefined"

PlayerIds == <<"player1", "player2">>
PlayerIdSet == {PlayerIds[i] : i \in 1..Len(PlayerIds)}
PlayerNumber(p) == CHOOSE i \in 1..Len(PlayerIds) : PlayerIds[i] = p

StartingMoney == 3
PiecesPerPlayer == 4
NumSpots == 8
MaxPiecesPerSpot == 3
TotalRounds == 8
BasePoints == 6

SpotIds == 0..(NumSpots - 1)
OshiIds == <<"A", "B", "C">>
GoodsTypes == {"uchiwa", "penlight", "sashiire"}
DiceFaces == 1..6

phaseOrder == <<"setup", "labor", "oshikatsu-decision", "oshikatsu-goods",
                "oshikatsu-placement", "fansa-time", "round-end">>
GamePhases == {phaseOrder[i] : i \in 1..Len(phaseOrder)} \cup {"game-end"}

----------------------------------------------------------------------------
(* Sequence helpers: the Array methods the code uses *)

Range(s) == {s[i] : i \in 1..Len(s)}

Includes(s, x) == \E i \in 1..Len(s) : s[i] = x

IndexOf(s, x) == IF Includes(s, x) THEN (CHOOSE i \in 1..Len(s) : s[i] = x /\ \A j \in 1..(i - 1) : s[j] # x) - 1
                 ELSE -1

RECURSIVE FlatMap(_, _)
FlatMap(f, ids) == IF ids = <<>> THEN <<>> ELSE f[Head(ids)] \o FlatMap(f, Tail(ids))

\* [...arr].filter((id, index, arr) => arr.indexOf(id) === index)
Dedupe(s) == LET keep == {i \in 1..Len(s) : IndexOf(s, s[i]) = i - 1}
                 RECURSIVE build(_)
                 build(i) == IF i > Len(s) THEN <<>>
                             ELSE IF i \in keep THEN <<s[i]>> \o build(i + 1) ELSE build(i + 1)
             IN build(1)

Max(a, b) == IF a >= b THEN a ELSE b

----------------------------------------------------------------------------
(* utils/gameLogic.ts: phases and turns *)

\* "throw" stands for the Error getNextPhase throws on a phase outside phaseOrder
getNextPhase(phase) ==
    LET currentIndex == IndexOf(phaseOrder, phase) IN
    IF currentIndex = -1 THEN "throw"
    ELSE IF currentIndex = Len(phaseOrder) - 1 THEN "labor"
    ELSE phaseOrder[currentIndex + 2]

isSimultaneousPhase(phase) ==
    phase \in {"labor", "oshikatsu-decision", "oshikatsu-goods", "oshikatsu-placement"}

isTurnBasedPhase(phase) == phase \in {"fansa-time"}

getNextPlayerIndex(currentIndex, totalPlayers) == (currentIndex + 1) % totalPlayers

Flag(p) == IF p \in DOMAIN phaseActions THEN phaseActions[p] ELSE FALSE

\* mutant: a phase that is neither simultaneous nor turn-based never passes the gate
canTransitionDefaultsToFalse ==
    IF isSimultaneousPhase(currentPhase)
    THEN \A p \in PlayerIdSet : Flag(p) = TRUE
    ELSE IF isTurnBasedPhase(currentPhase)
    THEN Flag(PlayerIds[activePlayerIndex + 1]) = TRUE
    ELSE FALSE

canTransitionToNextPhase ==
    IF isSimultaneousPhase(currentPhase)
    THEN \A p \in PlayerIdSet : Flag(p) = TRUE
    ELSE IF isTurnBasedPhase(currentPhase)
    THEN Flag(PlayerIds[activePlayerIndex + 1]) = TRUE
    ELSE TRUE

\* GameProvider.areAllPlayersReady
areAllPlayersReady == \A p \in PlayerIdSet : Flag(p) = TRUE

isGameComplete(round, phase) ==
    round > TotalRounds \/ (round = TotalRounds /\ phase = "round-end")

getNextGameState(round, phase) ==
    IF isGameComplete(round, phase)
    THEN [nextRound |-> round, nextPhase |-> "game-end"]
    ELSE IF phase = "round-end"
    THEN [nextRound |-> round + 1, nextPhase |-> "labor"]
    ELSE [nextRound |-> round, nextPhase |-> getNextPhase(phase)]

\* the piece list of one player after round-end cleanup
cleanupRoundEnd(pieces) ==
    LET kept == SelectSeq(pieces, LAMBDA pc : ~pc.isKagebunshin)
    IN [i \in 1..Len(kept) |-> [kept[i] EXCEPT !.boardSpotId = NoSpot]]

----------------------------------------------------------------------------
(* contexts/GameContext: construction *)

createTestPlayerPieces(p) ==
    [j \in 1..PiecesPerPlayer |->
        [id |-> 10 * PlayerNumber(p) + j, playerId |-> p, boardSpotId |-> NoSpot,
         goods |-> Undefined, isKagebunshin |-> FALSE]]

NoOshi == [id |-> Undefined, currentSpotId |-> NoSpot]

createInitialBoard == [i \in SpotIds |-> [otakuPieces |-> <<>>, oshiPiece |-> NoOshi]]

createInitialOshiPieces == [o \in Range(OshiIds) |-> NoSpot]

\* initializeGame(createTestPlayers()): the INITIALIZE_GAME case
Init ==
    /\ money = [p \in PlayerIdSet |-> StartingMoney]
    /\ points = [p \in PlayerIdSet |-> 0]
    /\ otakuPieces = [p \in PlayerIdSet |-> createTestPlayerPieces(p)]
    /\ selectedRewardCard = [p \in PlayerIdSet |-> Undefined]
    /\ oshikatsuDecision = [p \in PlayerIdSet |-> Undefined]
    /\ currentRound = 1
    /\ currentPhase = "setup"
    /\ activePlayerIndex = 0
    /\ spots = createInitialBoard
    /\ oshiPieces = createInitialOshiPieces
    /\ revealedCards = <<>>
    /\ roundHistory = <<>>
    /\ currentDiceResult = 0
    /\ phaseActions = [p \in PlayerIdSet |-> FALSE]
    /\ waitingForPlayers = PlayerIds
    /\ currentPlayer = 0

----------------------------------------------------------------------------
(* Turn and phase operations *)

\* nextTurn(): NEXT_TURN
NextTurn ==
    LET nextPlayerIndex == (activePlayerIndex + 1) % Len(PlayerIds) IN
    /\ activePlayerIndex' = nextPlayerIndex
    /\ currentPlayer' = nextPlayerIndex
    /\ UNCHANGED <<playerVars, currentRound, currentPhase, boardVars, roundHistory,
                   currentDiceResult, phaseActions, waitingForPlayers>>

\* mutant: the reward card survives the step from labor into oshikatsu-decision
NextPhaseKeepsCard(g) ==
    LET clearCard == g.nextPhase \in {"labor", "game-end"}
        clearDecision == g.nextPhase \in {"labor", "game-end"}
        cleanup == currentPhase = "round-end" /\ g.nextPhase = "labor"
    IN
    IF g.nextPhase = "throw" THEN UNCHANGED vars
    ELSE
    /\ selectedRewardCard' = [p \in PlayerIdSet |->
            IF clearCard \/ cleanup THEN Undefined ELSE selectedRewardCard[p]]
    /\ oshikatsuDecision' = [p \in PlayerIdSet |->
            IF clearDecision \/ cleanup THEN Undefined ELSE oshikatsuDecision[p]]
    /\ otakuPieces' = [p \in PlayerIdSet |->
            IF cleanup THEN cleanupRoundEnd(otakuPieces[p]) ELSE otakuPieces[p]]
    /\ currentPhase' = g.nextPhase
    /\ currentRound' = g.nextRound
    /\ phaseActions' = [p \in PlayerIdSet |-> FALSE]
    /\ waitingForPlayers' = PlayerIds
    /\ UNCHANGED <<money, points, activePlayerIndex, boardVars, roundHistory,
                   currentDiceResult, currentPlayer>>

\* the NEXT_PHASE case of gameReducer, g = getNextGameState(currentRound, currentPhase)
NEXT_PHASE(g) ==
    LET clearCard == (currentPhase = "labor" /\ g.nextPhase = "oshikatsu-decision")
                     \/ g.nextPhase \in {"labor", "game-end"}
        clearDecision == g.nextPhase \in {"labor", "game-end"}
        cleanup == currentPhase = "round-end" /\ g.nextPhase = "labor"
    IN
    IF g.nextPhase = "throw" THEN UNCHANGED vars
    ELSE
    /\ selectedRewardCard' = [p \in PlayerIdSet |->
            IF clearCard \/ cleanup THEN Undefined ELSE selectedRewardCard[p]]
    /\ oshikatsuDecision' = [p \in PlayerIdSet |->
            IF clearDecision \/ cleanup THEN Undefined ELSE oshikatsuDecision[p]]
    /\ otakuPieces' = [p \in PlayerIdSet |->
            IF cleanup THEN cleanupRoundEnd(otakuPieces[p]) ELSE otakuPieces[p]]
    /\ currentPhase' = g.nextPhase
    /\ currentRound' = g.nextRound
    /\ phaseActions' = [p \in PlayerIdSet |-> FALSE]
    /\ waitingForPlayers' = PlayerIds
    /\ UNCHANGED <<money, points, activePlayerIndex, boardVars, roundHistory,
                   currentDiceResult, currentPlayer>>

\* mutant: the round counter advances on every entry into labor, the first included
NextPhaseCountsSetup ==
    LET g == getNextGameState(currentRound, currentPhase) IN
    NEXT_PHASE([g EXCEPT !.nextRound =
                    IF g.nextPhase = "labor" /\ currentRound < TotalRounds
                    THEN currentRound + 1 ELSE g.nextRound])

\* nextPhase(): the provider dispatches NEXT_PHASE without consulting
\* canTransitionToNextPhase
NextPhase == NEXT_PHASE(getNextGameState(currentRound, currentPhase))

\* setPlayerActionCompleted(playerId, completed): SET_PLAYER_ACTION_COMPLETED
SetPlayerActionCompleted(playerId, completed) ==
    /\ phaseActions' = [q \in DOMAIN phaseActions \cup {playerId} |->
            IF q = playerId THEN completed ELSE phaseActions[q]]
    /\ waitingForPlayers' =
            IF completed
            THEN SelectSeq(waitingForPlayers, LAMBDA id : id # playerId)
            ELSE Dedupe(Append(waitingForPlayers, playerId))
    /\ UNCHANGED <<playerVars, currentRound, currentPhase, activePlayerIndex, boardVars,
                   roundHistory, currentDiceResult, currentPlayer>>

\* endGame(): END_GAME
EndGame ==
    /\ currentPhase' = "game-end"
    /\ UNCHANGED <<playerVars, currentRound, activePlayerIndex, boardVars, roundHistory,
                   currentDiceResult, turnVars>>

\* mutant: the oshi pieces keep the spots of the round
EndRoundKeepsOshi ==
    /\ otakuPieces' = [p \in PlayerIdSet |-> cleanupRoundEnd(otakuPieces[p])]
    /\ selectedRewardCard' = [p \in PlayerIdSet |-> Undefined]
    /\ oshikatsuDecision' = [p \in PlayerIdSet |-> Undefined]
    /\ currentPhase' = "round-end"
    /\ spots' = [i \in SpotIds |-> [otakuPieces |-> <<>>, oshiPiece |-> NoOshi]]
    /\ revealedCards' = <<>>
    /\ UNCHANGED <<money, points, currentRound, activePlayerIndex, oshiPieces, roundHistory,
                   currentDiceResult, turnVars>>

\* mutant: the points of the round are dropped with the board
EndRoundResetsPoints ==
    /\ otakuPieces' = [p \in PlayerIdSet |-> cleanupRoundEnd(otakuPieces[p])]
    /\ selectedRewardCard' = [p \in PlayerIdSet |-> Undefined]
    /\ oshikatsuDecision' = [p \in PlayerIdSet |-> Undefined]
    /\ currentPhase' = "round-end"
    /\ spots' = [i \in SpotIds |-> [otakuPieces |-> <<>>, oshiPiece |-> NoOshi]]
    /\ oshiPieces' = [o \in Range(OshiIds) |-> NoSpot]
    /\ revealedCards' = <<>>
    /\ points' = [p \in PlayerIdSet |-> 0]
    /\ UNCHANGED <<money, currentRound, activePlayerIndex, roundHistory,
                   currentDiceResult, turnVars>>

\* endRound(): END_ROUND
EndRound ==
    /\ otakuPieces' = [p \in PlayerIdSet |-> cleanupRoundEnd(otakuPieces[p])]
    /\ selectedRewardCard' = [p \in PlayerIdSet |-> Undefined]
    /\ oshikatsuDecision' = [p \in PlayerIdSet |-> Undefined]
    /\ currentPhase' = "round-end"
    /\ spots' = [i \in SpotIds |-> [otakuPieces |-> <<>>, oshiPiece |-> NoOshi]]
    /\ oshiPieces' = [o \in Range(OshiIds) |-> NoSpot]
    /\ revealedCards' = <<>>
    /\ UNCHANGED <<money, points, currentRound, activePlayerIndex, roundHistory,
                   currentDiceResult, turnVars>>

----------------------------------------------------------------------------
(* utils/gameLogic.ts: labor phase *)

createRewardDistributionCards ==
    <<[id |-> "card-A", name |-> "A", rewards |-> <<3, 2, 1, 0, 0, 0>>],
      [id |-> "card-B", name |-> "B", rewards |-> <<2, 3, 2, 1, 0, 0>>],
      [id |-> "card-C", name |-> "C", rewards |-> <<1, 2, 3, 2, 1, 0>>],
      [id |-> "card-D", name |-> "D", rewards |-> <<0, 1, 2, 3, 2, 1>>],
      [id |-> "card-E", name |-> "E", rewards |-> <<0, 0, 1, 2, 3, 2>>],
      [id |-> "card-F", name |-> "F", rewards |-> <<0, 0, 0, 1, 2, 3>>]>>

RewardCardIds == {createRewardDistributionCards[i].id : i \in 1..Len(createRewardDistributionCards)}

RewardCard(cardId) ==
    CHOOSE c \in Range(createRewardDistributionCards) : c.id = cardId

\* mutant: the die face is used as a 0-based index into the rewards
calculateLaborRewardZeroBased(cardId, diceResult) ==
    RewardCard(cardId).rewards[(diceResult % 6) + 1]

calculateLaborReward(cardId, diceResult) == RewardCard(cardId).rewards[diceResult]

updatePlayerMoney(m, amount) == Max(0, m + amount)

\* processLaborPhase(players, diceResult).laborResults
laborResultsOf(diceResult) ==
    [i \in 1..Len(PlayerIds) |->
        [playerId |-> PlayerIds[i],
         selectedCard |-> RewardCard(selectedRewardCard[PlayerIds[i]]).name,
         diceResult |-> diceResult,
         reward |-> calculateLaborReward(selectedRewardCard[PlayerIds[i]], diceResult)]]

HasRound(history, round) == \E i \in 1..Len(history) : history[i].roundNumber = round

\* roundHistory.find(round => round.roundNumber === currentRound)
FindRound(history, round) ==
    history[CHOOSE i \in 1..Len(history) :
                /\ history[i].roundNumber = round
                /\ \A j \in 1..(i - 1) : history[j].roundNumber # round]

----------------------------------------------------------------------------
(* Labor and decision operations *)

\* selectRewardCard(playerId, cardId): SELECT_REWARD_CARD
SelectRewardCard(playerId, cardId) ==
    IF cardId \notin RewardCardIds THEN UNCHANGED vars
    ELSE
    /\ selectedRewardCard' = [p \in PlayerIdSet |->
            IF p = playerId THEN cardId ELSE selectedRewardCard[p]]
    /\ phaseActions' = [q \in DOMAIN phaseActions \cup {playerId} |->
            IF q = playerId THEN TRUE ELSE phaseActions[q]]
    /\ waitingForPlayers' = SelectSeq(waitingForPlayers, LAMBDA id : id # playerId)
    /\ UNCHANGED <<money, points, otakuPieces, oshikatsuDecision, currentRound,
                   currentPhase, activePlayerIndex, boardVars, roundHistory,
                   currentDiceResult, currentPlayer>>

\* mutant: every roll appends a new history entry
RollDiceAlwaysAppends(diceResult) ==
    IF \E p \in PlayerIdSet : selectedRewardCard[p] = Undefined THEN UNCHANGED vars
    ELSE
    LET laborResults == laborResultsOf(diceResult) IN
    /\ money' = [p \in PlayerIdSet |->
            updatePlayerMoney(money[p], calculateLaborReward(selectedRewardCard[p], diceResult))]
    /\ roundHistory' =
            Append(roundHistory,
                   [roundNumber |-> currentRound, laborResults |-> laborResults,
                    oshikatsuDecisions |-> <<>>, fansaResults |-> <<>>])
    /\ currentDiceResult' = diceResult
    /\ UNCHANGED <<points, otakuPieces, selectedRewardCard, oshikatsuDecision, currentRound,
                   currentPhase, activePlayerIndex, boardVars, turnVars>>

\* rollDiceAndProcessLabor(): ROLL_DICE_AND_PROCESS_LABOR, diceResult = rollDice()
RollDiceAndProcessLabor(diceResult) ==
    IF \E p \in PlayerIdSet : selectedRewardCard[p] = Undefined THEN UNCHANGED vars
    ELSE
    LET laborResults == laborResultsOf(diceResult) IN
    /\ money' = [p \in PlayerIdSet |->
            updatePlayerMoney(money[p], calculateLaborReward(selectedRewardCard[p], diceResult))]
    /\ roundHistory' =
            IF HasRound(roundHistory, currentRound)
            THEN [i \in 1..Len(roundHistory) |->
                    IF roundHistory[i].roundNumber = currentRound
                    THEN [roundHistory[i] EXCEPT !.laborResults = laborResults]
                    ELSE roundHistory[i]]
            ELSE Append(roundHistory,
                        [roundNumber |-> currentRound, laborResults |-> laborResults,
                         oshikatsuDecisions |-> <<>>, fansaResults |-> <<>>])
    /\ currentDiceResult' = diceResult
    /\ UNCHANGED <<points, otakuPieces, selectedRewardCard, oshikatsuDecision, currentRound,
                   currentPhase, activePlayerIndex, boardVars, turnVars>>

\* selectOshikatsuDecision(playerId, decision): SELECT_OSHIKATSU_DECISION
SelectOshikatsuDecision(playerId, decision) ==
    /\ oshikatsuDecision' = [p \in PlayerIdSet |->
            IF p = playerId THEN decision ELSE oshikatsuDecision[p]]
    /\ phaseActions' = [q \in DOMAIN phaseActions \cup {playerId} |->
            IF q = playerId THEN TRUE ELSE phaseActions[q]]
    /\ waitingForPlayers' = SelectSeq(waitingForPlayers, LAMBDA id : id # playerId)
    /\ UNCHANGED <<money, points, otakuPieces, selectedRewardCard, currentRound,
                   currentPhase, activePlayerIndex, boardVars, roundHistory,
                   currentDiceResult, currentPlayer>>

\* currentRoundHistoryForDecision?.laborResults.find(...)?.reward || 0
laborRewardOf(p) ==
    IF ~HasRound(roundHistory, currentRound) THEN 0
    ELSE LET lr == FindRound(roundHistory, currentRound).laborResults IN
         IF \E i \in 1..Len(lr) : lr[i].playerId = p
         THEN lr[CHOOSE i \in 1..Len(lr) :
                    lr[i].playerId = p /\ \A j \in 1..(i - 1) : lr[j].playerId # p].reward
         ELSE 0

\* revealOshikatsuDecisions(): REVEAL_OSHIKATSU_DECISIONS
RevealOshikatsuDecisions ==
    IF \E p \in PlayerIdSet : oshikatsuDecision[p] = Undefined THEN UNCHANGED vars
    ELSE
    /\ money' = [p \in PlayerIdSet |->
            IF oshikatsuDecision[p] = "rest" THEN money[p] + laborRewardOf(p) ELSE money[p]]
    /\ roundHistory' = [i \in 1..Len(roundHistory) |->
            IF roundHistory[i].roundNumber = currentRound
            THEN [roundHistory[i] EXCEPT !.oshikatsuDecisions =
                    [k \in 1..Len(PlayerIds) |->
                        [playerId |-> PlayerIds[k], decision |-> oshikatsuDecision[PlayerIds[k]]]]]
            ELSE roundHistory[i]]
    /\ UNCHANGED <<points, otakuPieces, selectedRewardCard, oshikatsuDecision, currentRound,
                   currentPhase, activePlayerIndex, boardVars, currentDiceResult, turnVars>>

----------------------------------------------------------------------------
(* utils/errorHandling.ts: validation *)

allOtakuPieces == FlatMap(otakuPieces, PlayerIds)

PieceExists(pieceId) == \E i \in 1..Len(allOtakuPieces) : allOtakuPieces[i].id = pieceId

\* state.players.flatMap(player => player.otakuPieces).find(p => p.id === pieceId)
FindPiece(pieceId) ==
    allOtakuPieces[CHOOSE i \in 1..Len(allOtakuPieces) :
                      /\ allOtakuPieces[i].id = pieceId
                      /\ \A j \in 1..(i - 1) : allOtakuPieces[j].id # pieceId]

\* validateGameStateConsistency(gameSession).length === 0
validateGameStateConsistency ==
    /\ Len(PlayerIds) >= 1 /\ Len(PlayerIds) <= 4
    /\ activePlayerIndex >= 0 /\ activePlayerIndex < Len(PlayerIds)
    /\ currentRound >= 1 /\ currentRound <= TotalRounds
    /\ Cardinality(DOMAIN spots) = NumSpots
    /\ \A p \in PlayerIdSet :
          Len(SelectSeq(otakuPieces[p], LAMBDA pc : ~pc.isKagebunshin)) = PiecesPerPlayer
    /\ Cardinality(DOMAIN phaseActions) = Len(PlayerIds)

\* validatePhaseAction(action, currentPhase) === null
validatePhaseAction(action, phase) ==
    CASE action = "selectRewardCard" -> phase = "labor"
      [] action = "selectOshikatsuDecision" -> phase = "oshikatsu-decision"
      [] action = "purchaseGoods" -> phase = "oshikatsu-goods"
      [] action = "placePiece" -> phase = "oshikatsu-placement"
      [] action = "processFansaTime" -> phase = "fansa-time"
      [] OTHER -> TRUE

goodsPrices(goodsType) == IF goodsType = "sashiire" THEN 2 ELSE 1

IsAvailablePiece(pc) == pc.goods = Undefined /\ pc.boardSpotId = NoSpot

HasAvailablePiece(p) == \E i \in 1..Len(otakuPieces[p]) : IsAvailablePiece(otakuPieces[p][i])

\* buyer.otakuPieces.find(piece => !piece.goods && piece.boardSpotId === undefined)
availablePieceIndex(p) ==
    CHOOSE i \in 1..Len(otakuPieces[p]) :
        /\ IsAvailablePiece(otakuPieces[p][i])
        /\ \A j \in 1..(i - 1) : ~IsAvailablePiece(otakuPieces[p][j])

\* validateGoodsPurchase(playerId, goodsType, gameSession) === null
validateGoodsPurchase(playerId, goodsType) ==
    /\ playerId \in PlayerIdSet
    /\ money[playerId] >= goodsPrices(goodsType)
    /\ HasAvailablePiece(playerId)

\* mutant: the goods test is dropped
HasGoodsAlways(pc) == TRUE

\* piece.goods is set (the test !piece.goods)
HasGoods(pc) == pc.goods # Undefined

\* mutant: the capacity test is off by one
SpotFullOffByOne(spot) == Len(spot.otakuPieces) > MaxPiecesPerSpot

\* targetSpot.otakuPieces.length >= 3
SpotFull(spot) == Len(spot.otakuPieces) >= MaxPiecesPerSpot

\* validatePiecePlacement(pieceId, spotId, gameSession) === null
validatePiecePlacement(pieceId, spotId) ==
    /\ spotId >= 0 /\ spotId <= 7
    /\ PieceExists(pieceId)
    /\ HasGoods(FindPiece(pieceId))
    /\ spotId \in DOMAIN spots
    /\ ~SpotFull(spots[spotId])

\* useErrorHandler.validateOperation -> isOperationSafe, for purchaseGoods
isOperationSafePurchase(playerId, goodsType) ==
    /\ validateGameStateConsistency
    /\ validatePhaseAction("purchaseGoods", currentPhase)
    /\ validateGoodsPurchase(playerId, goodsType)

\* useErrorHandler.validateOperation -> isOperationSafe, for placePiece
isOperationSafePlace(pieceId, spotId) ==
    /\ validateGameStateConsistency
    /\ validatePhaseAction("placePiece", currentPhase)
    /\ validatePiecePlacement(pieceId, spotId)

----------------------------------------------------------------------------
(* Goods and placement operations *)

\* the PURCHASE_GOODS case of gameReducer
PURCHASE_GOODS(playerId, goodsType) ==
    IF playerId \notin PlayerIdSet THEN UNCHANGED vars
    ELSE IF money[playerId] < goodsPrices(goodsType) THEN UNCHANGED vars
    ELSE IF ~HasAvailablePiece(playerId) THEN UNCHANGED vars
    ELSE
    /\ money' = [money EXCEPT ![playerId] = @ - goodsPrices(goodsType)]
    /\ otakuPieces' = [otakuPieces EXCEPT ![playerId] =
            [i \in 1..Len(@) |->
                IF @[i].id = @[availablePieceIndex(playerId)].id
                THEN [@[i] EXCEPT !.goods = goodsType] ELSE @[i]]]
    /\ UNCHANGED <<points, selectedRewardCard, oshikatsuDecision, currentRound, currentPhase,
                   activePlayerIndex, boardVars, roundHistory, currentDiceResult, turnVars>>

\* purchaseGoods(playerId, goodsType) returns true: both validations pass and
\* PURCHASE_GOODS is dispatched
purchaseGoodsReturns(playerId, goodsType) ==
    validateGoodsPurchase(playerId, goodsType) /\ isOperationSafePurchase(playerId, goodsType)

\* mutant: the goods go to the last eligible piece
PurchaseGoodsLastPiece(playerId, goodsType) ==
    IF ~purchaseGoodsReturns(playerId, goodsType) THEN UNCHANGED vars
    ELSE
    LET last == CHOOSE i \in 1..Len(otakuPieces[playerId]) :
                    /\ IsAvailablePiece(otakuPieces[playerId][i])
                    /\ \A j \in (i + 1)..Len(otakuPieces[playerId]) :
                          ~IsAvailablePiece(otakuPieces[playerId][j])
    IN
    /\ money' = [money EXCEPT ![playerId] = @ - goodsPrices(goodsType)]
    /\ otakuPieces' = [otakuPieces EXCEPT ![playerId][last].goods = goodsType]
    /\ UNCHANGED <<points, selectedRewardCard, oshikatsuDecision, currentRound, currentPhase,
                   activePlayerIndex, boardVars, roundHistory, currentDiceResult, turnVars>>

\* mutant: the funds are not checked before the price is taken
PurchaseGoodsOnCredit(playerId, goodsType) ==
    IF ~(playerId \in PlayerIdSet /\ HasAvailablePiece(playerId)
         /\ validateGameStateConsistency
         /\ validatePhaseAction("purchaseGoods", currentPhase))
    THEN UNCHANGED vars
    ELSE
    /\ money' = [money EXCEPT ![playerId] = @ - goodsPrices(goodsType)]
    /\ otakuPieces' = [otakuPieces EXCEPT
            ![playerId][availablePieceIndex(playerId)].goods = goodsType]
    /\ UNCHANGED <<points, selectedRewardCard, oshikatsuDecision, currentRound, currentPhase,
                   activePlayerIndex, boardVars, roundHistory, currentDiceResult, turnVars>>

\* purchaseGoods(playerId, goodsType)
PurchaseGoods(playerId, goodsType) ==
    IF ~validateGoodsPurchase(playerId, goodsType) THEN UNCHANGED vars
    ELSE IF ~isOperationSafePurchase(playerId, goodsType) THEN UNCHANGED vars
    ELSE PURCHASE_GOODS(playerId, goodsType)

\* createKagebunshin(playerId, originalPieceId) returns an id, not null
createKagebunshinReturns(playerId, originalPieceId) ==
    /\ playerId \in PlayerIdSet
    /\ LET own == SelectSeq(otakuPieces[playerId], LAMBDA pc : pc.id = originalPieceId)
       IN own # <<>> /\ own[1].goods = "sashiire"

\* mutant: any piece that carries goods can be cloned
CreateKagebunshinAnyGoods(playerId, originalPieceId, now) ==
    IF playerId \notin PlayerIdSet THEN UNCHANGED vars
    ELSE
    LET own == SelectSeq(otakuPieces[playerId], LAMBDA pc : pc.id = originalPieceId) IN
    IF own = <<>> THEN UNCHANGED vars
    ELSE IF own[1].goods = Undefined THEN UNCHANGED vars
    ELSE
    /\ otakuPieces' = [otakuPieces EXCEPT ![playerId] =
            Append(@, [id |-> 10 * originalPieceId + now, playerId |-> playerId,
                       boardSpotId |-> NoSpot, goods |-> own[1].goods,
                       isKagebunshin |-> TRUE])]
    /\ UNCHANGED <<money, points, selectedRewardCard, oshikatsuDecision, currentRound,
                   currentPhase, activePlayerIndex, boardVars, roundHistory,
                   currentDiceResult, turnVars>>

\* mutant: the new piece is not flagged as a clone
CreateKagebunshinAsOriginal(playerId, originalPieceId, now) ==
    IF playerId \notin PlayerIdSet THEN UNCHANGED vars
    ELSE
    LET own == SelectSeq(otakuPieces[playerId], LAMBDA pc : pc.id = originalPieceId) IN
    IF own = <<>> THEN UNCHANGED vars
    ELSE IF own[1].goods # "sashiire" THEN UNCHANGED vars
    ELSE
    /\ otakuPieces' = [otakuPieces EXCEPT ![playerId] =
            Append(@, [id |-> 10 * originalPieceId + now, playerId |-> playerId,
                       boardSpotId |-> NoSpot, goods |-> own[1].goods,
                       isKagebunshin |-> FALSE])]
    /\ UNCHANGED <<money, points, selectedRewardCard, oshikatsuDecision, currentRound,
                   currentPhase, activePlayerIndex, boardVars, roundHistory,
                   currentDiceResult, turnVars>>

\* createKagebunshin(playerId, originalPieceId), now = Date.now(): CREATE_KAGEBUNSHIN
CreateKagebunshin(playerId, originalPieceId, now) ==
    IF playerId \notin PlayerIdSet THEN UNCHANGED vars
    ELSE
    LET own == SelectSeq(otakuPieces[playerId], LAMBDA pc : pc.id = originalPieceId) IN
    IF own = <<>> THEN UNCHANGED vars
    ELSE IF own[1].goods # "sashiire" THEN UNCHANGED vars
    ELSE
    /\ otakuPieces' = [otakuPieces EXCEPT ![playerId] =
            Append(@, [id |-> 10 * originalPieceId + now, playerId |-> playerId,
                       boardSpotId |-> NoSpot, goods |-> own[1].goods,
                       isKagebunshin |-> TRUE])]
    /\ UNCHANGED <<money, points, selectedRewardCard, oshikatsuDecision, currentRound,
                   currentPhase, activePlayerIndex, boardVars, roundHistory,
                   currentDiceResult, turnVars>>

\* the MOVE_PIECE case of gameReducer
MOVE_PIECE(pieceId, spotId) ==
    IF spotId \notin DOMAIN spots THEN UNCHANGED vars
    ELSE IF SpotFull(spots[spotId]) THEN UNCHANGED vars
    ELSE IF ~PieceExists(pieceId) THEN UNCHANGED vars
    ELSE IF ~HasGoods(FindPiece(pieceId)) THEN UNCHANGED vars
    ELSE
    LET updatedPiece == [FindPiece(pieceId) EXCEPT !.boardSpotId = spotId]
        removed(i) == SelectSeq(spots[i].otakuPieces, LAMBDA pc : pc.id # pieceId)
    IN
    /\ spots' = [i \in SpotIds |->
            [spots[i] EXCEPT !.otakuPieces =
                IF i = spotId THEN Append(removed(i), updatedPiece) ELSE removed(i)]]
    /\ otakuPieces' = [p \in PlayerIdSet |->
            [i \in 1..Len(otakuPieces[p]) |->
                IF otakuPieces[p][i].id = pieceId THEN updatedPiece ELSE otakuPieces[p][i]]]
    /\ UNCHANGED <<money, points, selectedRewardCard, oshikatsuDecision, currentRound,
                   currentPhase, activePlayerIndex, oshiPieces, revealedCards, roundHistory,
                   currentDiceResult, turnVars>>

\* mutant: the piece is given its new spot before the placement is validated
MovePieceMarksFirst(pieceId, spotId) ==
    IF validatePiecePlacement(pieceId, spotId) /\ isOperationSafePlace(pieceId, spotId)
    THEN MOVE_PIECE(pieceId, spotId)
    ELSE IF ~PieceExists(pieceId) THEN UNCHANGED vars
    ELSE
    /\ otakuPieces' = [p \in PlayerIdSet |->
            [i \in 1..Len(otakuPieces[p]) |->
                IF otakuPieces[p][i].id = pieceId
                THEN [otakuPieces[p][i] EXCEPT !.boardSpotId = spotId]
                ELSE otakuPieces[p][i]]]
    /\ UNCHANGED <<money, points, selectedRewardCard, oshikatsuDecision, currentRound,
                   currentPhase, activePlayerIndex, boardVars, roundHistory,
                   currentDiceResult, turnVars>>

\* movePiece(pieceId, spotId)
MovePiece(pieceId, spotId) ==
    IF ~validatePiecePlacement(pieceId, spotId) THEN UNCHANGED vars
    ELSE IF ~isOperationSafePlace(pieceId, spotId) THEN UNCHANGED vars
    ELSE MOVE_PIECE(pieceId, spotId)

----------------------------------------------------------------------------
(* utils/gameLogic.ts: fanservice cards and scoring *)

generateAllFanserviceSpotCombinations ==
    {<<i, j, k>> : i \in SpotIds, j \in SpotIds, k \in SpotIds} \cap
    {t \in SpotIds \X SpotIds \X SpotIds : t[1] < t[2] /\ t[2] < t[3]}

\* a card as applyRandomCardProperties returns it
FanserviceCard(triple, orientation, rotation) ==
    [spots |-> triple, orientation |-> orientation, rotation |-> rotation]

\* mutant: the face 3 is counted with the faces 1 and 2
mapDiceThreeIsFirst(diceResult) ==
    IF diceResult < 1 \/ diceResult > 6 THEN "throw"
    ELSE IF diceResult <= 3 THEN 0
    ELSE IF diceResult <= 4 THEN 1
    ELSE 2

\* "throw" stands for the Error thrown on a die outside 1..6
mapDiceToFanserviceSpot(diceResult) ==
    IF diceResult < 1 \/ diceResult > 6 THEN "throw"
    ELSE IF diceResult <= 2 THEN 0
    ELSE IF diceResult <= 4 THEN 1
    ELSE 2

\* placeFansaOshiPieces(revealedCards, diceResults), for three cards and three dice
placeFansaOshiPieces(cards, diceResults) ==
    [i \in 1..3 |->
        [oshiId |-> OshiIds[i],
         spotId |-> cards[i].spots[mapDiceToFanserviceSpot(diceResults[i]) + 1]]]

getAdjacentSpots(spotId) ==
    LET row == spotId \div 4
        col == spotId % 4
        directions == <<<<-1, 0>>, <<1, 0>>, <<0, -1>>, <<0, 1>>>>
        inside(d) == /\ row + d[1] >= 0 /\ row + d[1] < 2
                     /\ col + d[2] >= 0 /\ col + d[2] < 4
        kept == SelectSeq(directions, inside)
    IN [i \in 1..Len(kept) |-> (row + kept[i][1]) * 4 + (col + kept[i][2])]

getOppositeSpot(spotId) ==
    LET row == spotId \div 4
        col == spotId % 4
        oppositeRow == IF row = 0 THEN 1 ELSE 0
    IN oppositeRow * 4 + col

\* mutant: the remainder goes to the last pieces instead of the first
calculateBasicPointsRemainderLast(pieces) ==
    IF Len(pieces) = 0 THEN <<>>
    ELSE LET pointsPerPiece == BasePoints \div Len(pieces)
             remainder == BasePoints % Len(pieces)
         IN [i \in 1..Len(pieces) |->
                [playerId |-> pieces[i].playerId,
                 points |-> IF i > Len(pieces) - remainder
                            THEN pointsPerPiece + 1 ELSE pointsPerPiece]]

calculateBasicPoints(pieces) ==
    IF Len(pieces) = 0 THEN <<>>
    ELSE LET pointsPerPiece == BasePoints \div Len(pieces)
             remainder == BasePoints % Len(pieces)
         IN [i \in 1..Len(pieces) |->
                [playerId |-> pieces[i].playerId,
                 points |-> IF i - 1 < remainder THEN pointsPerPiece + 1 ELSE pointsPerPiece]]

\* mutant: uchiwa on the oshi's own spot counts as well
calculateUchiwaBonusOwnSpot(oshiSpotId, allPieces) ==
    LET hit == SelectSeq(allPieces, LAMBDA pc :
                    /\ pc.goods = "uchiwa"
                    /\ pc.boardSpotId # NoSpot
                    /\ \/ Includes(getAdjacentSpots(oshiSpotId), pc.boardSpotId)
                       \/ pc.boardSpotId = oshiSpotId)
    IN [i \in 1..Len(hit) |-> [playerId |-> hit[i].playerId, points |-> 1]]

calculateUchiwaBonus(oshiSpotId, allPieces) ==
    LET hit == SelectSeq(allPieces, LAMBDA pc :
                    /\ pc.goods = "uchiwa"
                    /\ pc.boardSpotId # NoSpot
                    /\ Includes(getAdjacentSpots(oshiSpotId), pc.boardSpotId))
    IN [i \in 1..Len(hit) |-> [playerId |-> hit[i].playerId, points |-> 1]]

calculatePenlightBonus(oshiSpotId, allPieces) ==
    LET hit == SelectSeq(allPieces, LAMBDA pc :
                    pc.goods = "penlight" /\ pc.boardSpotId = getOppositeSpot(oshiSpotId))
    IN [i \in 1..Len(hit) |-> [playerId |-> hit[i].playerId, points |-> 1]]

\* the doubling looks for sashiire among the pieces handed in: the spot's occupants
applySashiireBonus(pieces, basicPointResults) ==
    LET hasSashiire(p) == \E i \in 1..Len(pieces) :
                              pieces[i].goods = "sashiire" /\ pieces[i].playerId = p
    IN [i \in 1..Len(basicPointResults) |->
            [playerId |-> basicPointResults[i].playerId,
             points |-> IF hasSashiire(basicPointResults[i].playerId)
                        THEN basicPointResults[i].points * 2
                        ELSE basicPointResults[i].points]]

\* the contributions of one oshi placement, in the order calculateFansaPoints adds them
placementContributions(placement, board, allPieces) ==
    LET atSpot == board[placement.spotId].otakuPieces
        basic == calculateBasicPoints(atSpot)
        adjusted == applySashiireBonus(atSpot, basic)
        originalPoints(p) ==
            basic[CHOOSE i \in 1..Len(basic) :
                     basic[i].playerId = p /\ \A j \in 1..(i - 1) : basic[j].playerId # p].points
        front == [i \in 1..Len(adjusted) |->
                    [playerId |-> adjusted[i].playerId, points |-> adjusted[i].points,
                     kind |-> IF adjusted[i].points > originalPoints(adjusted[i].playerId)
                              THEN "front-sashiire" ELSE "front",
                     oshiId |-> placement.oshiId]]
        uchiwa == calculateUchiwaBonus(placement.spotId, allPieces)
        penlight == calculatePenlightBonus(placement.spotId, allPieces)
        tag(bonus, kind) ==
            [i \in 1..Len(bonus) |->
                [playerId |-> bonus[i].playerId, points |-> bonus[i].points,
                 kind |-> kind, oshiId |-> placement.oshiId]]
    IN front \o tag(uchiwa, "uchiwa") \o tag(penlight, "penlight")

\* playerPointsMap after the contributions, as the list the Map iterates to
RECURSIVE accumulatePoints(_, _)
accumulatePoints(results, contributions) ==
    IF contributions = <<>> THEN results
    ELSE LET c == Head(contributions)
             line == [kind |-> c.kind, oshiId |-> c.oshiId, points |-> c.points]
             known == \E i \in 1..Len(results) : results[i].playerId = c.playerId
             next == IF known
                     THEN [i \in 1..Len(results) |->
                             IF results[i].playerId = c.playerId
                             THEN [playerId |-> c.playerId,
                                   totalPoints |-> results[i].totalPoints + c.points,
                                   breakdown |-> Append(results[i].breakdown, line)]
                             ELSE results[i]]
                     ELSE Append(results, [playerId |-> c.playerId, totalPoints |-> c.points,
                                           breakdown |-> <<line>>])
         IN accumulatePoints(next, Tail(contributions))

calculateFansaPoints(oshiPlacements, board, allPieces) ==
    accumulatePoints(<<>>,
        placementContributions(oshiPlacements[1], board, allPieces)
        \o placementContributions(oshiPlacements[2], board, allPieces)
        \o placementContributions(oshiPlacements[3], board, allPieces))

PointsEarned(pointResults, p) ==
    IF \E i \in 1..Len(pointResults) : pointResults[i].playerId = p
    THEN pointResults[CHOOSE i \in 1..Len(pointResults) : pointResults[i].playerId = p].totalPoints
    ELSE 0

----------------------------------------------------------------------------
(* Fan-service operations *)

\* generateFanserviceSpotCards(): GENERATE_FANSERVICE_SPOT_CARDS, cards = the three
\* cards prepareOshikatsuPhaseCards drew
GenerateFanserviceSpotCards(cards) ==
    /\ revealedCards' = cards
    /\ UNCHANGED <<playerVars, currentRound, currentPhase, activePlayerIndex, spots,
                   oshiPieces, roundHistory, currentDiceResult, turnVars>>

\* processFansaTimePhase(): PROCESS_FANSA_TIME, diceResults = the three rollDice()
\* of processFansaTime.  placeFansaOshiPieces throws unless three cards are revealed.
ProcessFansaTimePhase(diceResults) ==
    IF Len(revealedCards) # 3 THEN UNCHANGED vars
    ELSE
    LET oshiPlacements == placeFansaOshiPieces(revealedCards, diceResults)
        pointResults == calculateFansaPoints(oshiPlacements, spots, allOtakuPieces)
        placed(spotId) == \E i \in 1..3 : oshiPlacements[i].spotId = spotId
        oshiAtSpot(spotId) ==
            oshiPlacements[CHOOSE i \in 1..3 :
                              /\ oshiPlacements[i].spotId = spotId
                              /\ \A j \in 1..(i - 1) : oshiPlacements[j].spotId # spotId]
        fansaResults == [i \in 1..Len(pointResults) |->
                            [playerId |-> pointResults[i].playerId,
                             pointsEarned |-> pointResults[i].totalPoints,
                             breakdown |-> pointResults[i].breakdown]]
    IN
    /\ oshiPieces' = [o \in Range(OshiIds) |->
            oshiPlacements[CHOOSE i \in 1..3 : oshiPlacements[i].oshiId = o].spotId]
    /\ spots' = [s \in SpotIds |->
            [spots[s] EXCEPT !.oshiPiece =
                IF placed(s)
                THEN [id |-> oshiAtSpot(s).oshiId, currentSpotId |-> oshiAtSpot(s).spotId]
                ELSE NoOshi]]
    /\ points' = [p \in PlayerIdSet |-> points[p] + PointsEarned(pointResults, p)]
    /\ roundHistory' = [i \in 1..Len(roundHistory) |->
            IF roundHistory[i].roundNumber = currentRound
            THEN [roundHistory[i] EXCEPT !.fansaResults = fansaResults]
            ELSE roundHistory[i]]
    /\ currentPhase' = IF currentPhase = "fansa-time" THEN "round-end" ELSE currentPhase
    /\ currentDiceResult' = diceResults[1]
    /\ UNCHANGED <<money, otakuPieces, selectedRewardCard, oshikatsuDecision, currentRound,
                   activePlayerIndex, revealedCards, turnVars>>

----------------------------------------------------------------------------
(* Specifications *)

\* Inputs of the turn-and-phase specification
TurnCardArgs == {"card-A"}
TurnDecisionArgs == {"rest"}
TurnDraw == <<FanserviceCard(<<0, 1, 2>>, "front", 0),
              FanserviceCard(<<0, 4, 5>>, "back", 90),
              FanserviceCard(<<2, 6, 7>>, "front", 180)>>
TurnDice == {<<1, 1, 6>>, <<3, 1, 5>>}

\* The session's turn and phase machine: every operation that writes the phase, the
\* round, the turn manager or the per-phase selections.  The operations left out
\* (purchaseGoods, createKagebunshin, movePiece, rollDiceAndProcessLabor,
\* revealOshikatsuDecisions) keep currentPhase, currentRound and turnVars UNCHANGED.
Next ==
    \/ NextTurn
    \/ NextPhase
    \/ \E p \in PlayerIdSet, b \in BOOLEAN : SetPlayerActionCompleted(p, b)
    \/ \E p \in PlayerIdSet, c \in TurnCardArgs : SelectRewardCard(p, c)
    \/ \E p \in PlayerIdSet, d \in TurnDecisionArgs : SelectOshikatsuDecision(p, d)
    \/ GenerateFanserviceSpotCards(TurnDraw)
    \/ \E d \in TurnDice : ProcessFansaTimePhase(d)
    \/ EndRound
    \/ EndGame

Spec == Init /\ [][Next]_vars

\* Inputs of the board specification
MaxClones == 1
MaxBoardRound == 1
BoardPurchaseArgs == {<<"player1", "uchiwa">>, <<"player1", "sashiire">>, <<"player2", "uchiwa">>}
BoardCloneArgs == {<<"player1", 11, 1>>, <<"player1", 12, 1>>, <<"player2", 11, 1>>}
BoardPieceArgs == {11, 12, 13, 21, 111, 99}
BoardSpotArgs == {0, 1}

CloneCount(p) == Len(SelectSeq(otakuPieces[p], LAMBDA pc : pc.isKagebunshin))

\* Goods, clones and placement: every operation that writes the piece lists, the money
\* or the spots' occupant lists, and the phase operations that gate them and clean up
\* after them.  The rounds 1..MaxBoardRound are played, up to the labor phase of the
\* round that follows; a player holds at most MaxClones clones at a time.  The
\* operations left out keep the piece lists and the occupant lists UNCHANGED
\* (processFansaTimePhase writes only the spots' oshiPiece fields).
BoardNext ==
    \/ currentRound <= MaxBoardRound /\ NextPhase
    \/ EndRound
    \/ \E a \in BoardPurchaseArgs : PurchaseGoods(a[1], a[2])
    \/ \E a \in BoardCloneArgs :
          CloneCount(a[1]) < MaxClones /\ CreateKagebunshin(a[1], a[2], a[3])
    \/ \E i \in BoardPieceArgs, s \in BoardSpotArgs : MovePiece(i, s)

BoardSpec == Init /\ [][BoardNext]_vars

----------------------------------------------------------------------------
(* Claims on the turn and phase machine (Spec) *)

AllFlagsCleared ==
    /\ \A p \in PlayerIdSet : Flag(p) = FALSE
    /\ waitingForPlayers = PlayerIds

PhaseChanges == currentPhase' # currentPhase

\* C2: nextPhase changes the phase only when the gate of the current phase is
\* satisfied (all flags in the simultaneous phases, the active player's flag in
\* fansa-time, nothing in setup and round-end); otherwise phase and round stay.
C2_NextPhaseRespectsGate ==
    [][(NextPhase /\ ~canTransitionToNextPhase)
          => (currentPhase' = currentPhase /\ currentRound' = currentRound)]_vars

\* C3: every change of phase between two non-terminal phases goes from a phase to
\* its immediate successor in phaseOrder (round-end being followed by labor).
C3_PhaseOrderKept ==
    [][(PhaseChanges /\ currentPhase # "game-end" /\ currentPhase' # "game-end")
          => currentPhase' = getNextPhase(currentPhase)]_vars

RoundInRange == 1 <= currentRound /\ currentRound <= TotalRounds

RoundStep ==
    /\ currentRound' # currentRound
          => /\ currentPhase = "round-end" /\ currentPhase' = "labor"
             /\ currentRound' = currentRound + 1
    /\ (NextPhase /\ currentPhase = "round-end" /\ currentRound = TotalRounds)
          => (currentPhase' = "game-end" /\ currentRound' = TotalRounds)

\* C4: the round counter changes only on the round-end to labor transition, by
\* exactly +1; nextPhase from round-end of round 8 yields game-end in round 8; the
\* round stays within 1..8.
C4_RoundCounter == []RoundInRange /\ [][RoundStep]_vars

\* the last round has been entered by seven increments and the game has ended in it
C4_Witness == currentRound = TotalRounds /\ currentPhase = "game-end"

\* C5: once the phase is game-end, no operation changes the phase or the round.
C5_GameEndTerminal ==
    [][currentPhase = "game-end"
          => (currentPhase' = "game-end" /\ currentRound' = currentRound)]_vars

\* C7: whenever the phase changes, by whichever operation, in the resulting state
\* every completion flag is false and the waiting list is the list of all players.
C7_FlagsResetOnPhaseChange ==
    [][PhaseChanges => AllFlagsCleared']_vars

----------------------------------------------------------------------------
(* A session played to its end: players complete their actions and nextPhase is
   applied when canTransitionToNextPhase allows it (LiveSpec) *)

GatedNextPhase == canTransitionToNextPhase /\ NextPhase

LiveNext == \/ GatedNextPhase
            \/ \E p \in PlayerIdSet : SetPlayerActionCompleted(p, TRUE)
            \/ \E p \in PlayerIdSet, c \in TurnCardArgs : SelectRewardCard(p, c)
            \/ \E p \in PlayerIdSet, d \in TurnDecisionArgs : SelectOshikatsuDecision(p, d)
            \/ NextTurn

LiveSpec == /\ Init /\ [][LiveNext]_vars
            /\ WF_vars(GatedNextPhase)
            /\ WF_vars(SetPlayerActionCompleted("player1", TRUE))
            /\ WF_vars(SetPlayerActionCompleted("player2", TRUE))

EntersLabor == currentPhase # "labor" /\ currentPhase' = "labor"
EntersGameEnd == currentPhase # "game-end" /\ currentPhase' = "game-end"

----------------------------------------------------------------------------
(* Claims on goods, clones and placement (BoardSpec) *)

OccupantIds(s) == [i \in 1..Len(spots[s].otakuPieces) |-> spots[s].otakuPieces[i].id]

\* C1: every one of the 8 board spots holds at most 3 pieces in its occupant list.
C1_SpotCapacity == \A s \in SpotIds : Len(spots[s].otakuPieces) <= MaxPiecesPerSpot

\* a spot is full while a further piece carrying goods waits off that spot
C1_Witness ==
    \E s \in SpotIds :
        /\ Len(spots[s].otakuPieces) = MaxPiecesPerSpot
        /\ \E i \in 1..Len(allOtakuPieces) :
              /\ allOtakuPieces[i].goods # Undefined
              /\ ~Includes(OccupantIds(s), allOtakuPieces[i].id)

\* the cases in which movePiece is to reject the placement; pieces is the list of
\* all players' pieces, a piece id denoting the first piece of the list that has it
MoveRejected(pieces, pieceId, spotId) ==
    LET found == {k \in 1..Len(pieces) : pieces[k].id = pieceId} IN
    \/ found = {}
    \/ pieces[CHOOSE k \in found : \A j \in found : k <= j].goods = Undefined
    \/ Len(spots[spotId].otakuPieces) >= MaxPiecesPerSpot

\* C8: movePiece leaves the whole session unchanged when the piece does not exist,
\* holds no goods, or the target spot already holds 3 pieces.
C8_RejectedMoveChangesNothing ==
    [][LET pieces == allOtakuPieces IN
       \A i \in BoardPieceArgs, s \in BoardSpotArgs :
          (MoveRejected(pieces, i, s) /\ MovePiece(i, s)) => UNCHANGED vars]_vars

\* in the placement phase a spot is full, one piece with goods sits on another spot
\* and one piece has no goods: all rejections can be attempted
C8_Witness ==
    /\ currentPhase = "oshikatsu-placement"
    /\ \E s \in BoardSpotArgs, i \in BoardPieceArgs :
          /\ Len(spots[s].otakuPieces) = MaxPiecesPerSpot
          /\ PieceExists(i)
          /\ FindPiece(i).goods # Undefined
          /\ FindPiece(i).boardSpotId \notin {s, NoSpot}
    /\ \E i \in BoardPieceArgs : PieceExists(i) /\ FindPiece(i).goods = Undefined

\* C9: the board and the piece lists agree: a piece id is in the occupant list of
\* spot s exactly when a piece with that id exists with board-spot assignment s, and
\* no id occurs in two occupant lists or twice in one.
C9_BoardAgreesWithPieces ==
    /\ \A s \in SpotIds :
          /\ \A i \in 1..Len(OccupantIds(s)) :
                \E k \in 1..Len(allOtakuPieces) :
                    /\ allOtakuPieces[k].id = OccupantIds(s)[i]
                    /\ allOtakuPieces[k].boardSpotId = s
          /\ \A i, j \in 1..Len(OccupantIds(s)) :
                OccupantIds(s)[i] = OccupantIds(s)[j] => i = j
          /\ \A t \in SpotIds \ {s} : Range(OccupantIds(s)) \cap Range(OccupantIds(t)) = {}
    /\ \A k \in 1..Len(allOtakuPieces) :
          allOtakuPieces[k].boardSpotId # NoSpot
             => Includes(OccupantIds(allOtakuPieces[k].boardSpotId), allOtakuPieces[k].id)

\* C10: a piece that holds no goods has no board-spot assignment and is in no
\* spot's occupant list.
C10_NoGoodsNoPlacement ==
    \A k \in 1..Len(allOtakuPieces) :
        allOtakuPieces[k].goods = Undefined
           => /\ allOtakuPieces[k].boardSpotId = NoSpot
              /\ \A s \in SpotIds : ~Includes(OccupantIds(s), allOtakuPieces[k].id)

\* in the placement phase one piece is placed and a piece of the same player has no goods
C10_Witness ==
    /\ currentPhase = "oshikatsu-placement"
    /\ \E p \in PlayerIdSet :
          /\ \E i \in 1..Len(otakuPieces[p]) : otakuPieces[p][i].boardSpotId # NoSpot
          /\ \E i \in 1..Len(otakuPieces[p]) : otakuPieces[p][i].goods = Undefined

----------------------------------------------------------------------------
(* Claims on purchases and clones (BoardSpec) *)

PriceOf(kind) == CASE kind = "uchiwa" -> 1 [] kind = "penlight" -> 1 [] kind = "sashiire" -> 2

Eligible(pc) == pc.goods = Undefined /\ pc.boardSpotId = NoSpot

\* the player can pay for kind and has a piece with no goods and no board assignment
CanBuy(player, kind) ==
    /\ money[player] >= PriceOf(kind)
    /\ \E i \in 1..Len(otakuPieces[player]) : Eligible(otakuPieces[player][i])

\* the price is paid and the first eligible piece, and nothing else, receives kind
BuyEffect(player, kind) ==
    LET first == CHOOSE i \in 1..Len(otakuPieces[player]) :
                     /\ Eligible(otakuPieces[player][i])
                     /\ \A j \in 1..(i - 1) : ~Eligible(otakuPieces[player][j])
    IN
    /\ money' = [money EXCEPT ![player] = @ - PriceOf(kind)]
    /\ otakuPieces' = [otakuPieces EXCEPT ![player][first].goods = kind]
    /\ UNCHANGED <<points, selectedRewardCard, oshikatsuDecision, currentRound, currentPhase,
                   activePlayerIndex, boardVars, roundHistory, currentDiceResult, turnVars>>

CloneAllowed(player, pieceId) ==
    /\ player \in PlayerIdSet
    /\ \E i \in 1..Len(otakuPieces[player]) :
          /\ otakuPieces[player][i].id = pieceId
          /\ \A j \in 1..(i - 1) : otakuPieces[player][j].id # pieceId
          /\ otakuPieces[player][i].goods = "sashiire"

\* the player has one more piece, an unplaced clone carrying sashiire; nothing else changes
CloneEffect(player) ==
    LET n == Len(otakuPieces[player]) IN
    /\ Len(otakuPieces'[player]) = n + 1
    /\ SubSeq(otakuPieces'[player], 1, n) = otakuPieces[player]
    /\ otakuPieces'[player][n + 1].isKagebunshin
    /\ otakuPieces'[player][n + 1].goods = "sashiire"
    /\ otakuPieces'[player][n + 1].boardSpotId = NoSpot
    /\ otakuPieces'[player][n + 1].playerId = player
    /\ \A q \in PlayerIdSet \ {player} : otakuPieces'[q] = otakuPieces[q]
    /\ UNCHANGED <<money, points, selectedRewardCard, oshikatsuDecision, currentRound,
                   currentPhase, activePlayerIndex, boardVars, roundHistory,
                   currentDiceResult, turnVars>>

\* C20: createKagebunshin returns null and leaves the session unchanged unless the
\* named piece belongs to the player and carries sashiire; on success the player has
\* exactly one more piece, an unplaced clone carrying sashiire, and every existing
\* piece is unchanged; a clone never carries any other goods kind.
C20_CloneOnlyFromSashiire ==
    /\ [](/\ \A a \in BoardCloneArgs :
               /\ createKagebunshinReturns(a[1], a[2]) <=> CloneAllowed(a[1], a[2])
               /\ CloneAllowed(a[1], a[2]) => ENABLED <<CreateKagebunshin(a[1], a[2], a[3])>>_vars
           /\ \A k \in 1..Len(allOtakuPieces) :
               allOtakuPieces[k].isKagebunshin => allOtakuPieces[k].goods = "sashiire")
    /\ [][\A a \in BoardCloneArgs :
            CreateKagebunshin(a[1], a[2], a[3]) =>
                IF CloneAllowed(a[1], a[2]) THEN CloneEffect(a[1]) ELSE UNCHANGED vars]_vars

\* player1 holds a clone, and also a piece that carries uchiwa and cannot be cloned
C20_Witness ==
    /\ \E i \in 1..Len(otakuPieces["player1"]) : otakuPieces["player1"][i].isKagebunshin
    /\ \E a \in BoardCloneArgs :
          /\ a[1] = "player1"
          /\ PieceExists(a[2])
          /\ FindPiece(a[2]).goods = "uchiwa"

----------------------------------------------------------------------------
(* Money: labor payouts, rest bonuses, purchases and clones (LaborSpec) *)

MaxMoney == 3
LaborCardArgs == {<<"player1", "card-A">>, <<"player1", "card-F">>, <<"player2", "card-A">>}
LaborDice == {1, 4}
LaborDecisionArgs == {<<"player1", "rest">>, <<"player1", "participate">>, <<"player2", "rest">>}
LaborPurchaseArgs == {<<"player1", "sashiire">>}
LaborCloneArgs == {<<"player1", 11, 1>>}

MoneyWithinBound == \A p \in PlayerIdSet : money[p] <= MaxMoney

\* The first round of a session, up to its round-end phase.  The dice are rolled and
\* the decisions revealed while no player holds more than MaxMoney; a player holds at
\* most MaxClones clones.  The operations left out keep the money UNCHANGED.
LaborNext ==
    \/ currentPhase # "round-end" /\ NextPhase
    \/ \E a \in LaborCardArgs : SelectRewardCard(a[1], a[2])
    \/ \E d \in LaborDice : MoneyWithinBound /\ RollDiceAndProcessLabor(d)
    \/ \E a \in LaborDecisionArgs : SelectOshikatsuDecision(a[1], a[2])
    \/ MoneyWithinBound /\ RevealOshikatsuDecisions
    \/ \E a \in LaborPurchaseArgs : PurchaseGoods(a[1], a[2])
    \/ \E a \in LaborCloneArgs :
          CloneCount(a[1]) < MaxClones /\ CreateKagebunshin(a[1], a[2], a[3])

LaborSpec == Init /\ [][LaborNext]_vars

\* C12: every player's money is >= 0 in every reachable state.
C12_MoneyNeverNegative == \A p \in PlayerIdSet : money[p] >= 0

\* a player has spent the whole starting money and has been paid nothing by the labor
\* roll of the round
C12_Witness ==
    \E p \in PlayerIdSet :
        /\ money[p] = 0
        /\ HasRound(roundHistory, currentRound)
        /\ laborRewardOf(p) = 0

\* the reward card with the given id, as fixed data
CardOf(cardId) ==
    CHOOSE c \in Range(createRewardDistributionCards) : c.id = cardId

AllSelected == \A p \in PlayerIdSet : selectedRewardCard[p] # Undefined

RoundEntries(history, round) ==
    {i \in 1..Len(history) : history[i].roundNumber = round}

\* what rolling face d is to do once every player has selected a card
LaborEffect(d) ==
    /\ \A p \in PlayerIdSet :
          money'[p] = Max(0, money[p] + CardOf(selectedRewardCard[p]).rewards[d])
    /\ Cardinality(RoundEntries(roundHistory', currentRound)) = 1
    /\ LET entry == roundHistory'[CHOOSE i \in RoundEntries(roundHistory', currentRound) : TRUE]
       IN /\ Len(entry.laborResults) = Len(PlayerIds)
          /\ \A p \in PlayerIdSet :
                \E k \in 1..Len(entry.laborResults) :
                    /\ entry.laborResults[k] =
                          [playerId |-> p,
                           selectedCard |-> CardOf(selectedRewardCard[p]).name,
                           diceResult |-> d,
                           reward |-> CardOf(selectedRewardCard[p]).rewards[d]]
                    /\ \A j \in 1..Len(entry.laborResults) :
                          entry.laborResults[j].playerId = p => j = k

\* C13: rollDiceAndProcessLabor leaves the session unchanged unless every player has
\* selected a reward card; otherwise, for the rolled face d, each player's money becomes
\* max(0, money + card.rewards[d]) and the history entry of the current round holds
\* exactly one labor record (player, card, d, payout) per player.
C13_LaborPayout ==
    [][\A d \in LaborDice :
          RollDiceAndProcessLabor(d) =>
              IF AllSelected THEN LaborEffect(d) ELSE UNCHANGED vars]_vars

\* face 4 has been rolled with card-F and card-A selected: player1 was paid 1 and
\* player2 nothing, and the round's entry records both
C13_Witness ==
    /\ currentDiceResult = 4
    /\ HasRound(roundHistory, currentRound)
    /\ laborRewardOf("player1") = 1
    /\ laborRewardOf("player2") = 0
    /\ money["player1"] = StartingMoney + 1
    /\ money["player2"] = StartingMoney

\* what a player's first selection of a card in a round is to do
FirstSelectionEffect(player, cardId) ==
    /\ selectedRewardCard' = [selectedRewardCard EXCEPT ![player] = cardId]
    /\ phaseActions'[player] = TRUE
    /\ \A q \in PlayerIdSet \ {player} : phaseActions'[q] = phaseActions[q]
    /\ waitingForPlayers' = SelectSeq(waitingForPlayers, LAMBDA id : id # player)
    /\ UNCHANGED <<money, points, otakuPieces, oshikatsuDecision, currentRound,
                   currentPhase, activePlayerIndex, boardVars, roundHistory,
                   currentDiceResult, currentPlayer>>

\* C14: after a player has selected a reward card, a further selectRewardCard by the
\* same player leaves the session unchanged; the first selection stores the card, sets
\* the player's completion flag, removes the player from the waiting list and changes
\* nothing for any other player.
C14_CardSelectedOncePerRound ==
    [][\A a \in LaborCardArgs :
          SelectRewardCard(a[1], a[2]) =>
              IF selectedRewardCard[a[1]] # Undefined
              THEN UNCHANGED vars
              ELSE FirstSelectionEffect(a[1], a[2])]_vars

\* every player has chosen a decision
AllDecided == \A p \in PlayerIdSet : oshikatsuDecision[p] # Undefined

\* the decisions of the current round have already been revealed
AlreadyRevealed ==
    \E i \in RoundEntries(roundHistory, currentRound) :
        roundHistory[i].oshikatsuDecisions # <<>>

\* the payout the round's labor record holds for the player, 0 without a record
RecordedPayout(player) ==
    LET records == {r \in UNION {Range(roundHistory[i].laborResults) :
                                   i \in RoundEntries(roundHistory, currentRound)} :
                       r.playerId = player}
    IN IF records = {} THEN 0 ELSE (CHOOSE r \in records : TRUE).reward

\* C15: revealOshikatsuDecisions is a no-op until every player has chosen a decision;
\* in a round each player who chose rest gains, once for the whole round, exactly the
\* payout of the round's labor record, each player who chose participate gains
\* nothing, and the round's history entry then lists every player's decision.
C15_RestBonusOncePerRound ==
    [][RevealOshikatsuDecisions =>
          IF ~AllDecided THEN UNCHANGED vars
          ELSE /\ \A p \in PlayerIdSet :
                    money'[p] = IF oshikatsuDecision[p] = "rest" /\ ~AlreadyRevealed
                                THEN money[p] + RecordedPayout(p)
                                ELSE money[p]
               /\ \A i \in RoundEntries(roundHistory', currentRound) :
                    \A p \in PlayerIdSet :
                        \E k \in 1..Len(roundHistory'[i].oshikatsuDecisions) :
                            roundHistory'[i].oshikatsuDecisions[k] =
                                [playerId |-> p, decision |-> oshikatsuDecision[p]]]_vars

----------------------------------------------------------------------------
(* Round-end cleanup after a played round (CleanupSpec) *)

CleanupPurchaseArgs == {<<"player1", "sashiire">>, <<"player2", "uchiwa">>}
CleanupCloneArgs == {<<"player1", 11, 1>>}
CleanupPieceArgs == {11, 111, 21}
CleanupSpotArgs == {0}
CleanupDice == <<1, 1, 6>>

\* A round with everything the cleanup is to remove: goods bought, a clone made, pieces
\* placed, a card and a decision selected, the fan-service cards revealed and, in
\* fansa-time, the oshi pieces placed and the points scored.  Rounds 1..MaxBoardRound
\* are played, up to the labor phase of the round that follows.
CleanupNext ==
    \/ currentRound <= MaxBoardRound /\ NextPhase
    \/ EndRound
    \/ \E a \in CleanupPurchaseArgs : PurchaseGoods(a[1], a[2])
    \/ \E a \in CleanupCloneArgs :
          CloneCount(a[1]) < MaxClones /\ CreateKagebunshin(a[1], a[2], a[3])
    \/ \E i \in CleanupPieceArgs, s \in CleanupSpotArgs : MovePiece(i, s)
    \/ SelectRewardCard("player1", "card-A")
    \/ SelectOshikatsuDecision("player1", "rest")
    \/ GenerateFanserviceSpotCards(TurnDraw)
    \/ currentPhase = "fansa-time" /\ ProcessFansaTimePhase(CleanupDice)

CleanupSpec == Init /\ [][CleanupNext]_vars

\* no piece is placed and no clone exists
PiecesCollected ==
    \A k \in 1..Len(allOtakuPieces) :
        allOtakuPieces[k].boardSpotId = NoSpot /\ ~allOtakuPieces[k].isKagebunshin

\* no spot holds a piece or an oshi marker, no oshi marker has a spot, nothing is revealed
BoardCleared ==
    /\ \A s \in SpotIds : spots[s].otakuPieces = <<>> /\ spots[s].oshiPiece = NoOshi
    /\ \A o \in Range(OshiIds) : oshiPieces[o] = NoSpot
    /\ revealedCards = <<>>

SelectionsCleared ==
    \A p \in PlayerIdSet :
        selectedRewardCard[p] = Undefined /\ oshikatsuDecision[p] = Undefined

\* C16: after endRound, from any state, every piece's board-spot assignment is cleared,
\* no clone exists, every spot's occupant list is empty and holds no oshi marker, all
\* three oshi markers have no spot, the fan-service reveal is empty, and every player's
\* selected reward card and decision are cleared.
C16_EndRoundCleansUp ==
    [][EndRound => (PiecesCollected /\ BoardCleared /\ SelectionsCleared)']_vars

\* endRound has just cleaned up a round in which fansa-time was played (the dice result
\* of its first roll is kept) and player1 bought sashiire
C16_Witness ==
    /\ currentPhase = "round-end"
    /\ PiecesCollected /\ BoardCleared /\ SelectionsCleared
    /\ currentDiceResult = CleanupDice[1]
    /\ otakuPieces["player1"][1].goods = "sashiire"
    /\ \E p \in PlayerIdSet : points[p] > 0

\* the step nextPhase takes from round-end into labor of the next round
NextRoundStep ==
    NextPhase /\ currentPhase = "round-end" /\ currentPhase' = "labor"

\* C17: when nextPhase takes the session from round-end into labor of the next round,
\* the full round-end cleanup holds in the resulting state even if endRound was never
\* called: all occupant lists are empty, no spot holds an oshi marker, all oshi markers
\* are unassigned, the reveal is empty, no clone exists and no piece is placed.
C17_NextRoundStartsClean ==
    [][NextRoundStep => (PiecesCollected /\ BoardCleared)']_vars

\* the goods of the pieces that are no clones, by piece id
GoodsOfOriginals ==
    {<<allOtakuPieces[k].id, allOtakuPieces[k].goods>> :
        k \in {j \in 1..Len(allOtakuPieces) : ~allOtakuPieces[j].isKagebunshin}}

CardsCleared == \A p \in PlayerIdSet : selectedRewardCard[p] = Undefined

DecisionsCleared == \A p \in PlayerIdSet : oshikatsuDecision[p] = Undefined

\* the original wording of C19: the reward cards are gone after entering
\* oshikatsu-decision, cards and decisions are gone after entering labor of the next
\* round, and no other change of phase alters either field
C19_OnlyTwoTransitionsClear ==
    [][PhaseChanges =>
          /\ currentPhase' = "oshikatsu-decision" => CardsCleared'
          /\ (currentPhase' = "labor" /\ currentRound' = currentRound + 1) =>
                (CardsCleared /\ DecisionsCleared)'
          /\ ~(\/ currentPhase' = "oshikatsu-decision"
               \/ currentPhase' = "labor" /\ currentRound' = currentRound + 1) =>
                UNCHANGED <<selectedRewardCard, oshikatsuDecision>>]_vars

\* C19: after nextPhase enters oshikatsu-decision no player has a selected reward card
\* and the decisions are kept; after nextPhase enters labor (of the first or of the next
\* round) or game-end no player has a selected reward card or a decision; endRound
\* clears both fields as well; every other change of phase (nextPhase into the remaining
\* phases, processFansaTimePhase, endGame) leaves both fields of every player as they were.
C19_ClearedByDestination ==
    [][/\ (NextPhase /\ PhaseChanges) =>
            /\ IF currentPhase' \in {"oshikatsu-decision", "labor", "game-end"}
               THEN CardsCleared' ELSE UNCHANGED selectedRewardCard
            /\ IF currentPhase' \in {"labor", "game-end"}
               THEN DecisionsCleared' ELSE UNCHANGED oshikatsuDecision
       /\ EndRound => (CardsCleared /\ DecisionsCleared)'
       /\ (PhaseChanges /\ ~NextPhase /\ ~EndRound) =>
            UNCHANGED <<selectedRewardCard, oshikatsuDecision>>]_vars

\* the goods phase of a later round has been entered by nextPhase (flags and waiting list
\* as it leaves them) with no reward card left and player1's decision still in place
C19_Witness ==
    /\ currentPhase = "oshikatsu-goods"
    /\ currentRound > 1
    /\ AllFlagsCleared
    /\ CardsCleared
    /\ oshikatsuDecision["player1"] = "rest"

----------------------------------------------------------------------------
(* Session creation (SetupSpec) *)

\* gameSession === null: useReducer(gameReducer, null)
NoSession == currentPhase = Undefined

NullSession ==
    /\ money = <<>>
    /\ points = <<>>
    /\ otakuPieces = <<>>
    /\ selectedRewardCard = <<>>
    /\ oshikatsuDecision = <<>>
    /\ currentRound = 0
    /\ currentPhase = Undefined
    /\ activePlayerIndex = 0
    /\ spots = <<>>
    /\ oshiPieces = <<>>
    /\ revealedCards = <<>>
    /\ roundHistory = <<>>
    /\ currentDiceResult = 0
    /\ phaseActions = <<>>
    /\ waitingForPlayers = <<>>
    /\ currentPlayer = 0

\* String.prototype.trim and toLowerCase on the names used below
trim(name) == IF name = " " THEN "" ELSE name

toLowerCase(name) == IF name = "Aki" THEN "aki" ELSE IF name = "Mio" THEN "mio" ELSE name

\* mutant: five players are let through
validatePlayerCountUpToFive(playerCount) == playerCount < 1 \/ playerCount > 5

\* validatePlayerCount: TRUE when an error is returned
validatePlayerCount(playerCount) == playerCount < 1 \/ playerCount > 4

\* validatePlayerName: TRUE when an error is returned
validatePlayerName(name, existingPlayers) ==
    \/ name = "" \/ Len(trim(name)) = 0
    \/ \E k \in 1..Len(existingPlayers) :
          toLowerCase(existingPlayers[k].name) = toLowerCase(name)

\* the player list the page builds (createTestPlayers), for any number of players
createTestPlayers(names) ==
    [i \in 1..Len(names) |->
        [id |-> <<"player1", "player2", "player3", "player4", "player5">>[i],
         name |-> names[i],
         money |-> StartingMoney,
         points |-> 0,
         otakuPieces |-> [j \in 1..PiecesPerPlayer |->
             [id |-> 10 * i + j,
              playerId |-> <<"player1", "player2", "player3", "player4", "player5">>[i],
              boardSpotId |-> NoSpot, goods |-> Undefined, isKagebunshin |-> FALSE]]]]

\* the INITIALIZE_GAME case of gameReducer
INITIALIZE_GAME(players) ==
    LET ids == [i \in 1..Len(players) |-> players[i].id]
        at(p) == players[IndexOf(ids, p) + 1]
    IN
    /\ money' = [p \in Range(ids) |-> at(p).money]
    /\ points' = [p \in Range(ids) |-> at(p).points]
    /\ otakuPieces' = [p \in Range(ids) |-> at(p).otakuPieces]
    /\ selectedRewardCard' = [p \in Range(ids) |-> Undefined]
    /\ oshikatsuDecision' = [p \in Range(ids) |-> Undefined]
    /\ currentRound' = 1
    /\ currentPhase' = "setup"
    /\ activePlayerIndex' = 0
    /\ spots' = createInitialBoard
    /\ oshiPieces' = createInitialOshiPieces
    /\ revealedCards' = <<>>
    /\ roundHistory' = <<>>
    /\ currentDiceResult' = 0
    /\ phaseActions' = [p \in Range(ids) |-> FALSE]
    /\ waitingForPlayers' = ids
    /\ currentPlayer' = 0

\* whether initializeGame(players) gets as far as dispatching
initializeGameAccepts(players) ==
    /\ ~validatePlayerCount(Len(players))
    /\ \A i \in 1..Len(players) :
          ~validatePlayerName(players[i].name, SubSeq(players, 1, i - 1))

\* initializeGame(players)
InitializeGame(players) ==
    IF initializeGameAccepts(players) THEN INITIALIZE_GAME(players) ELSE UNCHANGED vars

SetupNames ==
    {<<>>, <<"P1">>, <<"P1", "P2">>, <<"P1", "P2", "P3">>, <<"P1", "P2", "P3", "P4">>,
     <<"P1", "P2", "P3", "P4", "P5">>,
     <<"Aki", "aki">>, <<"Aki", " ">>, <<"", "Mio">>, <<"Aki", "Mio", "aki">>}

\* the session of two players the rule operations are exercised on
TwoPlayerSession == ~NoSession /\ DOMAIN money = PlayerIdSet

\* the moments a game is started: no session yet, or a session before its first phase
\* or between two rounds
CanStartGame == NoSession \/ currentPhase \in {"setup", "round-end"}

\* A session is created, or replaced, by initializeGame with zero to five players; on a
\* session of player1 and player2 a round is played as in CleanupNext.
SetupNext ==
    \/ CanStartGame /\ \E names \in SetupNames : InitializeGame(createTestPlayers(names))
    \/ TwoPlayerSession /\ CleanupNext

SetupSpec == NullSession /\ [][SetupNext]_vars

NonClonesOf(p) == SelectSeq(otakuPieces[p], LAMBDA pc : ~pc.isKagebunshin)

ClonesOf(p) == SelectSeq(otakuPieces[p], LAMBDA pc : pc.isKagebunshin)

\* a step of createKagebunshin or of the round-end cleanup
CloneOrCleanupStep ==
    \/ \E a \in CleanupCloneArgs : CreateKagebunshin(a[1], a[2], a[3])
    \/ EndRound
    \/ NextRoundStep

IdsOf(names) == [i \in 1..Len(names) |-> createTestPlayers(names)[i].id]

\* the session a successful initializeGame is to leave
FreshSession(names) ==
    /\ DOMAIN money = Range(IdsOf(names))
    /\ currentRound = 1
    /\ currentPhase = "setup"
    /\ activePlayerIndex = 0
    /\ DOMAIN spots = 0..7
    /\ \A i \in DOMAIN spots : spots[i].otakuPieces = <<>> /\ spots[i].oshiPiece = NoOshi
    /\ DOMAIN oshiPieces = {"A", "B", "C"}
    /\ \A o \in DOMAIN oshiPieces : oshiPieces[o] = NoSpot
    /\ revealedCards = <<>>
    /\ roundHistory = <<>>
    /\ DOMAIN phaseActions = Range(IdsOf(names))
    /\ \A p \in DOMAIN phaseActions : phaseActions[p] = FALSE
    /\ waitingForPlayers = IdsOf(names)

CountAllowed(names) == Len(names) >= 1 /\ Len(names) <= 4

\* no name is empty or blank and no two names are equal up to case
NamesUsable(names) ==
    /\ \A i \in 1..Len(names) : names[i] \notin {"", " "}
    /\ \A i, j \in 1..Len(names) : i < j => toLowerCase(names[i]) # toLowerCase(names[j])

\* the original wording of C22: initializeGame creates the session exactly when it is
\* given 1..4 players
C22_AcceptedForOneToFour ==
    \A names \in SetupNames :
        IF CountAllowed(names)
        THEN \/ ENABLED <<InitializeGame(createTestPlayers(names))>>_vars
             \/ FreshSession(names)
        ELSE ~ENABLED <<InitializeGame(createTestPlayers(names))>>_vars

\* C22: initializeGame with 0 players, with more than 4 players, or with a player whose
\* name is empty, blank or equal up to case to the name of an earlier player, is rejected
\* and leaves the current session as it was; with 1..4 players of usable names it yields
\* a session in round 1, phase setup, active player index 0, with an empty 8-spot board,
\* three unplaced oshi markers, empty reveal and round history, all completion flags
\* false and all players in the waiting list.
C22_InitializeGame ==
    /\ [](\A names \in SetupNames :
            /\ initializeGameAccepts(createTestPlayers(names)) <=>
                  (CountAllowed(names) /\ NamesUsable(names))
            /\ (CanStartGame /\ CountAllowed(names) /\ NamesUsable(names)) =>
                  \/ FreshSession(names)
                  \/ ENABLED <<InitializeGame(createTestPlayers(names))>>_vars)
    /\ [][\A names \in SetupNames :
            (CanStartGame /\ InitializeGame(createTestPlayers(names))) =>
                IF CountAllowed(names) /\ NamesUsable(names)
                THEN FreshSession(names)'
                ELSE UNCHANGED vars]_vars

\* a session of four players has just been created
C22_Witness ==
    /\ FreshSession(<<"P1", "P2", "P3", "P4">>)
    /\ Cardinality(DOMAIN money) = 4

----------------------------------------------------------------------------
(* Claims on the phase of the rule operations *)

\* C23: the rule operations take effect only in their own phase: selectRewardCard in
\* labor, selectOshikatsuDecision in oshikatsu-decision, purchaseGoods in
\* oshikatsu-goods, movePiece in oshikatsu-placement, processFansaTimePhase in
\* fansa-time; invoked in any other phase the operation leaves the session unchanged.
C23_OperationsOnlyInOwnPhase ==
    [][/\ (currentPhase # "labor"
            /\ \E p \in PlayerIdSet, c \in TurnCardArgs : SelectRewardCard(p, c))
              => UNCHANGED vars
       /\ (currentPhase # "oshikatsu-decision"
            /\ \E p \in PlayerIdSet, d \in TurnDecisionArgs : SelectOshikatsuDecision(p, d))
              => UNCHANGED vars
       /\ (currentPhase # "oshikatsu-goods"
            /\ \E a \in BoardPurchaseArgs : PurchaseGoods(a[1], a[2]))
              => UNCHANGED vars
       /\ (currentPhase # "oshikatsu-placement"
            /\ \E i \in BoardPieceArgs, t \in BoardSpotArgs : MovePiece(i, t))
              => UNCHANGED vars
       /\ (currentPhase # "fansa-time"
            /\ \E d \in TurnDice : ProcessFansaTimePhase(d))
              => UNCHANGED vars]_vars

----------------------------------------------------------------------------
(* The basic split as a function of the occupant list (SplitSpec) *)

MaxOccupants == 6

RECURSIVE OwnerLists(_)
OwnerLists(n) ==
    IF n = 0 THEN {<<>>}
    ELSE LET shorter == OwnerLists(n - 1)
         IN shorter \cup {Append(l, p) : l \in {x \in shorter : Len(x) = n - 1},
                                          p \in PlayerIdSet}

\* the occupant list of a spot whose pieces belong, in order, to the given players
OccupantsOf(owners) ==
    [i \in 1..Len(owners) |->
        [id |-> i, playerId |-> owners[i], boardSpotId |-> 0, goods |-> "uchiwa",
         isKagebunshin |-> FALSE]]

\* One call of calculateBasicPoints: otakuPieces holds the argument of that name and
\* points the list the call returns; no session is involved.
SplitInit ==
    /\ \E owners \in OwnerLists(MaxOccupants) : otakuPieces = OccupantsOf(owners)
    /\ points = Undefined
    /\ currentPhase = "call"
    /\ money = <<>>
    /\ selectedRewardCard = <<>>
    /\ oshikatsuDecision = <<>>
    /\ currentRound = 0
    /\ activePlayerIndex = 0
    /\ spots = <<>>
    /\ oshiPieces = <<>>
    /\ revealedCards = <<>>
    /\ roundHistory = <<>>
    /\ currentDiceResult = 0
    /\ phaseActions = <<>>
    /\ waitingForPlayers = <<>>
    /\ currentPlayer = 0

CalculateBasicPoints ==
    /\ currentPhase = "call"
    /\ points' = calculateBasicPoints(otakuPieces)
    /\ currentPhase' = "return"
    /\ UNCHANGED <<money, otakuPieces, selectedRewardCard, oshikatsuDecision, currentRound,
                   activePlayerIndex, boardVars, roundHistory, currentDiceResult, turnVars>>

SplitSpec == SplitInit /\ [][CalculateBasicPoints]_vars

RECURSIVE SumPoints(_)
SumPoints(results) ==
    IF results = <<>> THEN 0 ELSE results[1].points + SumPoints(Tail(results))

\* C24: for every occupant count k >= 1 the basic-split points of a spot sum to exactly
\* 6: the first (6 mod k) occupants in list order receive ceil(6/k) and the remaining
\* ones floor(6/k); with no occupants nothing is distributed.
C24_BasicSplit ==
    currentPhase = "return" =>
        LET k == Len(otakuPieces) IN
        IF k = 0 THEN points = <<>>
        ELSE /\ Len(points) = k
             /\ SumPoints(points) = 6
             /\ \A i \in 1..k :
                   /\ points[i].playerId = otakuPieces[i].playerId
                   /\ points[i].points = IF i <= 6 % k THEN (6 + k - 1) \div k ELSE 6 \div k

\* four occupants: the first two receive 2, the other two 1
C24_Witness ==
    /\ currentPhase = "return"
    /\ Len(otakuPieces) = 4
    /\ [i \in 1..4 |-> points[i].points] = <<2, 2, 1, 1>>
    /\ points[1].playerId = "player2"

----------------------------------------------------------------------------
(* Scoring of a played round (FansaSpec) *)

FansaPurchaseArgs == {<<"player1", "sashiire">>, <<"player1", "uchiwa">>,
                      <<"player2", "penlight">>}
FansaPieceArgs == {11, 12, 21}
FansaSpotArgs == {0, 1, 4}
FansaDraws == {TurnDraw,
               <<FanserviceCard(<<1, 4, 6>>, "back", 0),
                 FanserviceCard(<<0, 1, 4>>, "front", 270),
                 FanserviceCard(<<3, 5, 7>>, "back", 90)>>}
FansaDice == {<<1, 3, 5>>, <<2, 4, 6>>, <<5, 1, 3>>, <<4, 6, 2>>}
FansaLaborDie == 4

\* The first round up to its round-end: the labor roll may be made or skipped, goods
\* are bought and pieces placed on three spots, three cards are revealed and the dice
\* of fansa-time are rolled.
FansaNext ==
    \/ currentPhase # "round-end" /\ NextPhase
    \/ currentPhase = "labor" /\ \E p \in PlayerIdSet : SelectRewardCard(p, "card-A")
    \/ currentPhase = "labor" /\ RollDiceAndProcessLabor(FansaLaborDie)
    \/ \E a \in FansaPurchaseArgs : PurchaseGoods(a[1], a[2])
    \/ \E i \in FansaPieceArgs, t \in FansaSpotArgs : MovePiece(i, t)
    \/ currentPhase = "fansa-time" /\ \E c \in FansaDraws : GenerateFanserviceSpotCards(c)
    \/ currentPhase = "fansa-time" /\ \E d \in FansaDice : ProcessFansaTimePhase(d)

FansaSpec == Init /\ [][FansaNext]_vars

RECURSIVE SumSeq(_)
SumSeq(ns) == IF ns = <<>> THEN 0 ELSE Head(ns) + SumSeq(Tail(ns))

\* the spot the die sends the i-th oshi marker to: faces 1,2 the first, 3,4 the second,
\* 5,6 the third spot of the i-th revealed card
OshiSpot(i, dice) == revealedCards[i].spots[((dice[i] - 1) \div 2) + 1]

OwnsSashiire(p) ==
    \E k \in 1..Len(allOtakuPieces) :
        allOtakuPieces[k].playerId = p /\ allOtakuPieces[k].goods = "sashiire"

HasSashiireAt(p, spotId) ==
    \E k \in 1..Len(spots[spotId].otakuPieces) :
        /\ spots[spotId].otakuPieces[k].playerId = p
        /\ spots[spotId].otakuPieces[k].goods = "sashiire"

\* what player p receives of the basic split of a spot, doubled or not
FrontPoints(p, spotId, doubled) ==
    LET basic == calculateBasicPoints(spots[spotId].otakuPieces)
    IN SumSeq([k \in 1..Len(basic) |->
                 IF basic[k].playerId = p
                 THEN (IF doubled THEN 2 ELSE 1) * basic[k].points
                 ELSE 0])

Row(spotId) == spotId \div 4
Col(spotId) == spotId % 4

\* neighbours in the grid of 2 rows and 4 columns
Adjacent(a, b) ==
    \/ Row(a) = Row(b) /\ (Col(a) = Col(b) + 1 \/ Col(b) = Col(a) + 1)
    \/ Col(a) = Col(b) /\ Row(a) # Row(b)

Opposite(a, b) == Col(a) = Col(b) /\ Row(a) # Row(b)

UchiwaPoints(p, spotId) ==
    Cardinality({k \in 1..Len(allOtakuPieces) :
        /\ allOtakuPieces[k].playerId = p
        /\ allOtakuPieces[k].goods = "uchiwa"
        /\ allOtakuPieces[k].boardSpotId # NoSpot
        /\ Adjacent(spotId, allOtakuPieces[k].boardSpotId)})

PenlightPoints(p, spotId) ==
    Cardinality({k \in 1..Len(allOtakuPieces) :
        /\ allOtakuPieces[k].playerId = p
        /\ allOtakuPieces[k].goods = "penlight"
        /\ allOtakuPieces[k].boardSpotId # NoSpot
        /\ Opposite(spotId, allOtakuPieces[k].boardSpotId)})

\* the step processFansaTimePhase takes in fansa-time with the given dice
FansaStep(dice) == currentPhase = "fansa-time" /\ ProcessFansaTimePhase(dice)

\* C25: in scoring an oshi's spot, every basic-split recipient who owns a piece carrying
\* sashiire anywhere (on this spot, on another spot, or unplaced) has the basic-split
\* share for this spot doubled, and a recipient who owns no sashiire piece receives the
\* share undoubled.
C25_SashiireAnywhereDoubles ==
    [][\A dice \in FansaDice :
          (FansaStep(dice) /\ Len(revealedCards) = 3) =>
             \A p \in PlayerIdSet :
                points'[p] - points[p] =
                   SumSeq([i \in 1..3 |->
                       FrontPoints(p, OshiSpot(i, dice), OwnsSashiire(p))
                       + UchiwaPoints(p, OshiSpot(i, dice))
                       + PenlightPoints(p, OshiSpot(i, dice))])]_vars

\* C26: for an oshi placed at spot s, the owner of each uchiwa piece on a spot adjacent
\* to s (up, down, left or right neighbour in the 2x4 grid) receives exactly +1 and the
\* owner of each penlight piece on the spot opposite s (same column, other row)
\* receives exactly +1; pieces with those goods on any other spot, or unplaced, earn no
\* such bonus.  What a player gains in fansa-time is therefore the shares of the basic
\* split plus these bonuses, summed over the three oshi.
C26_UchiwaAndPenlightBonus ==
    [][\A dice \in FansaDice :
          (FansaStep(dice) /\ Len(revealedCards) = 3) =>
             \A p \in PlayerIdSet :
                points'[p] - points[p] =
                   SumSeq([i \in 1..3 |->
                       FrontPoints(p, OshiSpot(i, dice), HasSashiireAt(p, OshiSpot(i, dice)))
                       + UchiwaPoints(p, OshiSpot(i, dice))
                       + PenlightPoints(p, OshiSpot(i, dice))])]_vars

\* the oshi stood on the spots 1, 5 and 2: player1's uchiwa on spot 0 earned 1 (next to
\* spot 1), player1's uchiwa on spot 4 earned 1 (next to spot 5), and player2's penlight
\* on spot 4 earned nothing, no oshi standing on spot 0
C26_Witness ==
    /\ currentPhase = "round-end"
    /\ oshiPieces = [A |-> 1, B |-> 5, C |-> 2]
    /\ otakuPieces["player1"][1].goods = "uchiwa" /\ otakuPieces["player1"][1].boardSpotId = 0
    /\ otakuPieces["player1"][2].goods = "uchiwa" /\ otakuPieces["player1"][2].boardSpotId = 4
    /\ otakuPieces["player2"][1].goods = "penlight" /\ otakuPieces["player2"][1].boardSpotId = 4
    /\ points["player1"] = 2
    /\ points["player2"] = 0

\* C27: processFansaTimePhase places the oshi markers A, B, C in that order, marker i on
\* spot revealedCards[i].spots[idx(die_i)] with idx mapping the faces 1,2 to 0, the
\* faces 3,4 to 1 and the faces 5,6 to 2, so every oshi lands on one of the three spots
\* of its own revealed card; a die value outside 1..6 is rejected as an error.
C27_OshiPlacedByDice ==
    /\ [](\A d \in 0..7 :
            mapDiceToFanserviceSpot(d) =
                IF d \in {1, 2} THEN 0
                ELSE IF d \in {3, 4} THEN 1
                ELSE IF d \in {5, 6} THEN 2
                ELSE "throw")
    /\ [][\A dice \in FansaDice :
            (FansaStep(dice) /\ Len(revealedCards) = 3) =>
               /\ \A i \in 1..3 :
                     /\ oshiPieces'[OshiIds[i]] = OshiSpot(i, dice)
                     /\ oshiPieces'[OshiIds[i]] \in Range(revealedCards[i].spots)
               /\ \A t \in SpotIds :
                     \/ spots'[t].oshiPiece = NoOshi
                          /\ \A i \in 1..3 : OshiSpot(i, dice) # t
                     \/ \E i \in 1..3 :
                          /\ OshiSpot(i, dice) = t
                          /\ spots'[t].oshiPiece = [id |-> OshiIds[i], currentSpotId |-> t]
               /\ revealedCards' = revealedCards]_vars

\* the dice 5, 1, 3 sent A to the third spot of its card, B to the first and C to the
\* second
C27_Witness ==
    /\ currentPhase = "round-end"
    /\ revealedCards = TurnDraw
    /\ currentDiceResult = 5
    /\ oshiPieces = [A |-> 2, B |-> 0, C |-> 6]

\* the contributions of the three oshi placements, in the order they are added
FansaContributions(dice) ==
    LET oshiPlacements == placeFansaOshiPieces(revealedCards, dice)
    IN placementContributions(oshiPlacements[1], spots, allOtakuPieces)
       \o placementContributions(oshiPlacements[2], spots, allOtakuPieces)
       \o placementContributions(oshiPlacements[3], spots, allOtakuPieces)

ContributionSum(p, dice) ==
    LET cs == FansaContributions(dice)
    IN SumSeq([k \in 1..Len(cs) |-> IF cs[k].playerId = p THEN cs[k].points ELSE 0])

Scores(p, dice) ==
    \E k \in 1..Len(FansaContributions(dice)) : FansaContributions(dice)[k].playerId = p

\* C28: processFansaTimePhase adds to each player's cumulative points exactly the sum of
\* that player's contributions over the three oshi placements, leaves the points of
\* players with no contribution unchanged, and records in the history entry of the
\* current round one scoring record per scoring player whose pointsEarned equals that
\* sum; afterwards the phase is round-end.
C28_FansaPointsRecorded ==
    [][\A dice \in FansaDice :
          (FansaStep(dice) /\ Len(revealedCards) = 3) =>
             /\ \A p \in PlayerIdSet : points'[p] = points[p] + ContributionSum(p, dice)
             /\ currentPhase' = "round-end"
             /\ Cardinality(RoundEntries(roundHistory', currentRound)) <= 1
             /\ \A p \in PlayerIdSet :
                   LET records ==
                         {<<i, k>> \in (1..Len(roundHistory')) \X (1..Cardinality(PlayerIdSet)) :
                             /\ roundHistory'[i].roundNumber = currentRound
                             /\ k <= Len(roundHistory'[i].fansaResults)
                             /\ roundHistory'[i].fansaResults[k].playerId = p}
                   IN IF Scores(p, dice)
                      THEN /\ Cardinality(records) = 1
                           /\ \A r \in records :
                                 roundHistory'[r[1]].fansaResults[r[2]].pointsEarned =
                                    ContributionSum(p, dice)
                      ELSE records = {}]_vars

----------------------------------------------------------------------------
(* The fan-service deck and the reveal of a round (DeckSpec) *)

\* the triples in the order the three nested loops push them
fanserviceSpotCombinations ==
    LET loopK(i, j) == [n \in 1..(7 - j) |-> <<i, j, j + n>>]
        loopJ(i) == FlatMap([j \in (i + 1)..7 |-> loopK(i, j)],
                            [n \in 1..(7 - i) |-> i + n])
    IN FlatMap([i \in 0..7 |-> loopJ(i)], [n \in 1..8 |-> n - 1])

\* createAllFanserviceSpotCards(): gameState.fanserviceSpotCards of every session
createAllFanserviceSpotCards ==
    [n \in 1..Len(fanserviceSpotCombinations) |->
        [id |-> n, spots |-> fanserviceSpotCombinations[n],
         orientation |-> "front", rotation |-> 0]]

\* mutant: the three cards are drawn with replacement
selectRandomWithReplacement(allCards) ==
    IF Len(allCards) < 3 THEN {}
    ELSE {<<allCards[a], allCards[b], allCards[c]>> :
             a \in 1..Len(allCards), b \in 1..Len(allCards), c \in 1..Len(allCards)}

\* selectRandomFanserviceSpotCards(allCards, 3): the first three cards of a shuffle,
\* every order of the deck being a possible shuffle; it throws on fewer than 3 cards
selectRandomFanserviceSpotCards(allCards) ==
    IF Len(allCards) < 3 THEN {}
    ELSE {<<allCards[t[1]], allCards[t[2]], allCards[t[3]]>> :
             t \in {u \in (1..Len(allCards)) \X (1..Len(allCards)) \X (1..Len(allCards)) :
                       u[1] # u[2] /\ u[1] # u[3] /\ u[2] # u[3]}}

\* the outcomes of randomizeCardOrientation and randomizeCardRotation considered for the
\* three cards of a draw
DeckProperties == {<<<<"front", 0>>, <<"front", 0>>, <<"front", 0>>>>,
                   <<<<"back", 90>>, <<"front", 180>>, <<"back", 270>>>>}

\* prepareOshikatsuPhaseCards(allCards): the draws it can return
prepareOshikatsuPhaseCards(allCards) ==
    {[i \in 1..3 |-> FanserviceCard(selected[i].spots, props[i][1], props[i][2])] :
        selected \in selectRandomFanserviceSpotCards(allCards), props \in DeckProperties}

\* The cards of a round are revealed when none are (OshikatsuPhase), and endRound
\* removes them again.
DeckNext ==
    \/ /\ revealedCards = <<>>
       /\ \E cards \in prepareOshikatsuPhaseCards(createAllFanserviceSpotCards) :
             GenerateFanserviceSpotCards(cards)
    \/ EndRound

DeckSpec == Init /\ [][DeckNext]_vars

\* the deck holds every three-element subset of the spot ids once, sorted ascending
DeckIsAllTriples ==
    /\ Len(createAllFanserviceSpotCards) = 56
    /\ {Range(createAllFanserviceSpotCards[n].spots) :
            n \in 1..Len(createAllFanserviceSpotCards)}
         = {S \in SUBSET (0..7) : Cardinality(S) = 3}
    /\ \A n, m \in 1..Len(createAllFanserviceSpotCards) :
            n # m => createAllFanserviceSpotCards[n].spots # createAllFanserviceSpotCards[m].spots
    /\ \A n \in 1..Len(createAllFanserviceSpotCards) :
            LET t == createAllFanserviceSpotCards[n].spots
            IN Len(t) = 3 /\ t[1] < t[2] /\ t[2] < t[3]

DeckTriples ==
    {createAllFanserviceSpotCards[n].spots : n \in 1..Len(createAllFanserviceSpotCards)}

----------------------------------------------------------------------------
(* The round history over several rounds (HistorySpec) *)

MaxHistoryRound == 2
HistoryCardArgs == {<<"player1", "card-F">>, <<"player2", "card-A">>}
HistoryDice == {4, 5}
HistoryFansaDice == <<1, 1, 6>>

\* Rounds 1..MaxHistoryRound with everything that writes the history: the labor roll,
\* the reveal of the decisions and the scoring of fansa-time, each of which may also be
\* left out or repeated.
HistoryNext ==
    \/ currentRound <= MaxHistoryRound /\ NextPhase
    \/ currentPhase = "labor" /\ \E a \in HistoryCardArgs : SelectRewardCard(a[1], a[2])
    \/ \E d \in HistoryDice : MoneyWithinBound /\ RollDiceAndProcessLabor(d)
    \/ currentPhase = "oshikatsu-decision"
          /\ \E p \in PlayerIdSet : SelectOshikatsuDecision(p, "rest")
    \/ MoneyWithinBound /\ RevealOshikatsuDecisions
    \/ PurchaseGoods("player1", "uchiwa")
    \/ MovePiece(11, 0)
    \/ currentPhase = "fansa-time" /\ GenerateFanserviceSpotCards(TurnDraw)
    \/ currentPhase = "fansa-time" /\ ProcessFansaTimePhase(HistoryFansaDice)

HistorySpec == Init /\ [][HistoryNext]_vars

\* C30: the round history holds at most one entry per round number, in increasing round
\* order, and once the session has moved on to a later round the entries of earlier
\* rounds are never changed by any operation.
C30_HistoryAppendOnly ==
    /\ [](\A i \in 1..Len(roundHistory) :
             /\ roundHistory[i].roundNumber <= currentRound
             /\ \A j \in (i + 1)..Len(roundHistory) :
                   roundHistory[i].roundNumber < roundHistory[j].roundNumber)
    /\ [][\A i \in 1..Len(roundHistory) :
            roundHistory[i].roundNumber < currentRound =>
                /\ i <= Len(roundHistory')
                /\ roundHistory'[i] = roundHistory[i]]_vars

\* the history holds the entries of rounds 1 and 2, both with labor results, decisions
\* and fansa results
C30_Witness ==
    /\ currentRound = 2
    /\ Len(roundHistory) = 2
    /\ roundHistory[1].roundNumber = 1
    /\ roundHistory[2].roundNumber = 2
    /\ \A i \in 1..2 :
          /\ roundHistory[i].oshikatsuDecisions # <<>>
          /\ roundHistory[i].fansaResults # <<>>
    /\ roundHistory[1].laborResults # roundHistory[2].laborResults

----------------------------------------------------------------------------
(* Turn order and completion tracking in sessions of one to four players (TurnSpec) *)

MaxTurnRound == 1

\* the player ids the operations are invoked with; in a session of fewer than four
\* players the higher ids are ids of no player
TurnPlayerArgs == {"player1", "player2", "player3"}
TurnNames == {<<"P1">>, <<"P1", "P2">>, <<"P1", "P2", "P3">>, <<"P1", "P2", "P3", "P4">>}

\* state.players.length
NumPlayers == Cardinality(DOMAIN money)

\* mutant: the turn stays with the last player
NextTurnStopsAtLast ==
    IF NoSession THEN UNCHANGED vars
    ELSE
    LET nextPlayerIndex == IF activePlayerIndex + 1 < NumPlayers
                           THEN activePlayerIndex + 1 ELSE activePlayerIndex IN
    /\ activePlayerIndex' = nextPlayerIndex
    /\ currentPlayer' = nextPlayerIndex
    /\ UNCHANGED <<playerVars, currentRound, currentPhase, boardVars, roundHistory,
                   currentDiceResult, phaseActions, waitingForPlayers>>

\* the NEXT_TURN case of gameReducer for a session of any number of players
NEXT_TURN ==
    IF NoSession THEN UNCHANGED vars
    ELSE
    LET nextPlayerIndex == (activePlayerIndex + 1) % NumPlayers IN
    /\ activePlayerIndex' = nextPlayerIndex
    /\ currentPlayer' = nextPlayerIndex
    /\ UNCHANGED <<playerVars, currentRound, currentPhase, boardVars, roundHistory,
                   currentDiceResult, phaseActions, waitingForPlayers>>

TurnNext ==
    \/ CanStartGame /\ \E names \in TurnNames : InitializeGame(createTestPlayers(names))
    \/ NEXT_TURN
    \/ ~NoSession /\ \E p \in TurnPlayerArgs, b \in BOOLEAN : SetPlayerActionCompleted(p, b)
    \/ TwoPlayerSession /\ \E p \in TurnPlayerArgs, c \in TurnCardArgs : SelectRewardCard(p, c)
    \/ TwoPlayerSession
         /\ \E p \in TurnPlayerArgs, d \in TurnDecisionArgs : SelectOshikatsuDecision(p, d)
    \/ TwoPlayerSession /\ currentRound <= MaxTurnRound /\ NextPhase

TurnSpec == NullSession /\ [][TurnNext]_vars

\* the index reached from index i by k turns among n players
RECURSIVE IndexAfter(_, _, _)
IndexAfter(i, n, k) == IF k = 0 THEN i ELSE getNextPlayerIndex(IndexAfter(i, n, k - 1), n)

\* C31: the active player index is always in [0, players.length) and equals
\* turnManager.currentPlayer; nextTurn advances it from i to (i+1) mod n, so the last
\* player is followed by the first, and n consecutive turns visit every player exactly
\* once and return to the starting player.
C31_TurnOrderCyclic ==
    /\ [](~NoSession =>
            /\ activePlayerIndex \in 0..(NumPlayers - 1)
            /\ currentPlayer = activePlayerIndex
            /\ {IndexAfter(activePlayerIndex, NumPlayers, k) : k \in 1..NumPlayers}
                  = 0..(NumPlayers - 1)
            /\ IndexAfter(activePlayerIndex, NumPlayers, NumPlayers) = activePlayerIndex
            /\ \/ NumPlayers = 1
               \/ ENABLED <<NEXT_TURN>>_vars)
    /\ [][(~NoSession /\ NEXT_TURN) =>
            /\ activePlayerIndex' = IF activePlayerIndex = NumPlayers - 1
                                    THEN 0 ELSE activePlayerIndex + 1
            /\ activePlayerIndex' = IndexAfter(activePlayerIndex, NumPlayers, 1)
            /\ currentPlayer' = activePlayerIndex']_vars

\* the turn has reached the last of four players
C31_Witness ==
    /\ NumPlayers = 4
    /\ activePlayerIndex = 3
    /\ currentPlayer = 3

\* C32: in every reachable state the completion-flag map has exactly the current
\* player ids as its keys, and the waiting list is exactly the set of players whose
\* flag is false, with no duplicates and no ids that are not players, after any
\* sequence of setPlayerActionCompleted, selectRewardCard, selectOshikatsuDecision and
\* nextPhase with arbitrary player-id arguments.
C32_FlagsAndWaitingList ==
    ~NoSession =>
        /\ DOMAIN phaseActions = DOMAIN money
        /\ Range(waitingForPlayers) = {p \in DOMAIN money : Flag(p) = FALSE}
        /\ Len(waitingForPlayers) = Cardinality(Range(waitingForPlayers))

----------------------------------------------------------------------------
(* utils/errorHandling.ts: consistency check and repair of a loaded session      *)
(* (RepairSpec).  The session is any value LOAD_SAVED_GAME can hand over; the    *)
(* board is the array of BoardSpot records, so a spot carries its own id and     *)
(* position and the array can have any length.                                   *)

PlayerOrder == <<"player1", "player2", "player3", "player4", "player5">>

\* gameSession.players.map(p => p.id)
PlayerList == SelectSeq(PlayerOrder, LAMBDA p : p \in DOMAIN money)

BoardSpot(id, row, col, occupants) ==
    [id |-> id, position |-> [row |-> row, col |-> col],
     otakuPieces |-> occupants, oshiPiece |-> NoOshi]

\* { id: i, position: { row: Math.floor(i / 4), col: i % 4 }, otakuPieces: [], ... }
EmptySpot(i) == BoardSpot(i, i \div 4, i % 4, <<>>)

\* the session held in the state, as the GameSession value the utilities are given
Session ==
    [players |-> [i \in 1..Len(PlayerList) |->
                    [id |-> PlayerList[i],
                     money |-> money[PlayerList[i]],
                     points |-> points[PlayerList[i]],
                     otakuPieces |-> otakuPieces[PlayerList[i]],
                     selectedRewardCard |-> selectedRewardCard[PlayerList[i]],
                     oshikatsuDecision |-> oshikatsuDecision[PlayerList[i]]]],
     currentRound |-> currentRound,
     currentPhase |-> currentPhase,
     activePlayerIndex |-> activePlayerIndex,
     spots |-> spots,
     oshiPieces |-> [o \in DOMAIN oshiPieces |->
                       [id |-> o, currentSpotId |-> oshiPieces[o]]],
     revealedCards |-> revealedCards,
     roundHistory |-> roundHistory,
     currentDiceResult |-> currentDiceResult,
     phaseActions |-> phaseActions,
     waitingForPlayers |-> waitingForPlayers,
     currentPlayer |-> currentPlayer]

\* validateGameStateConsistency(gameSession).length === 0, for any session value
validateGameStateConsistencyOf(gameSession) ==
    /\ ~(Len(gameSession.players) < 1 \/ Len(gameSession.players) > 4)
    /\ ~(gameSession.activePlayerIndex < 0
           \/ gameSession.activePlayerIndex >= Len(gameSession.players))
    /\ ~(gameSession.currentRound < 1 \/ gameSession.currentRound > 8)
    /\ Len(gameSession.spots) = 8
    /\ \A i \in 1..Len(gameSession.players) :
          Len(SelectSeq(gameSession.players[i].otakuPieces,
                        LAMBDA piece : ~piece.isKagebunshin)) = 4
    /\ Cardinality(DOMAIN gameSession.phaseActions) = Len(gameSession.players)

\* spots.find(s => s.id === i) || { id: i, ... }
FindSpotOrEmpty(boardSpots, i) ==
    IF \E k \in 1..Len(boardSpots) : boardSpots[k].id = i
    THEN boardSpots[CHOOSE k \in 1..Len(boardSpots) :
                       /\ boardSpots[k].id = i
                       /\ \A j \in 1..(k - 1) : boardSpots[j].id # i]
    ELSE EmptySpot(i)

\* repairGameState(gameSession): the session returned, and the value of the argument
\* after the call.  The copy is shallow ({ ...gameSession }): turnManager is replaced
\* by a new object, gameState is shared with the argument and its board is assigned to.
repairGameState(gameSession) ==
    LET ids == [i \in 1..Len(gameSession.players) |-> gameSession.players[i].id]
        validPhaseActions ==
            [p \in Range(ids) |->
                IF p \in DOMAIN gameSession.phaseActions
                THEN gameSession.phaseActions[p] ELSE FALSE]
        board == IF Len(gameSession.spots) # 8
                 THEN [i \in 1..8 |-> FindSpotOrEmpty(gameSession.spots, i - 1)]
                 ELSE gameSession.spots
    IN [returned |-> [gameSession EXCEPT
                         !.activePlayerIndex =
                             IF @ >= Len(gameSession.players) \/ @ < 0 THEN 0 ELSE @,
                         !.phaseActions = validPhaseActions,
                         !.waitingForPlayers =
                             SelectSeq(ids, LAMBDA p : ~validPhaseActions[p]),
                         !.spots = board],
        input |-> [gameSession EXCEPT !.spots = board]]

\* LOAD_SAVED_GAME: the payload becomes the session
LOAD_SAVED_GAME(payload) ==
    LET ids == {payload.players[i].id : i \in 1..Len(payload.players)}
        at(p) == payload.players[CHOOSE i \in 1..Len(payload.players) :
                                    payload.players[i].id = p]
    IN
    /\ money' = [p \in ids |-> at(p).money]
    /\ points' = [p \in ids |-> at(p).points]
    /\ otakuPieces' = [p \in ids |-> at(p).otakuPieces]
    /\ selectedRewardCard' = [p \in ids |-> at(p).selectedRewardCard]
    /\ oshikatsuDecision' = [p \in ids |-> at(p).oshikatsuDecision]
    /\ currentRound' = payload.currentRound
    /\ currentPhase' = payload.currentPhase
    /\ activePlayerIndex' = payload.activePlayerIndex
    /\ spots' = payload.spots
    /\ oshiPieces' = [o \in DOMAIN payload.oshiPieces |->
                         payload.oshiPieces[o].currentSpotId]
    /\ revealedCards' = payload.revealedCards
    /\ roundHistory' = payload.roundHistory
    /\ currentDiceResult' = payload.currentDiceResult
    /\ phaseActions' = payload.phaseActions
    /\ waitingForPlayers' = payload.waitingForPlayers
    /\ currentPlayer' = payload.currentPlayer

\* repairGameStateIfNeeded()
RepairGameStateIfNeeded ==
    IF validateGameStateConsistencyOf(Session) THEN UNCHANGED vars
    ELSE LOAD_SAVED_GAME(repairGameState(Session).returned)

\* The sessions handed over: zero to five players, an index inside and outside the
\* range, rounds inside and outside 1..8, a known and an unknown phase, boards of 7, 8
\* and 9 spots, flag maps with missing, foreign and exchanged keys, and a player who
\* has lost an original piece.
RepairPlayerCounts == {0, 1, 2, 5}
RepairIndexes == {-1, 0, 1, 2}
RepairRounds == {0, 1, 8, 9}
RepairPhases == {"labor", "intermission"}

RepairOccupant == [id |-> 11, playerId |-> "player1", boardSpotId |-> 0,
                   goods |-> "uchiwa", isKagebunshin |-> FALSE]

CanonicalBoard == [i \in 1..8 |-> IF i = 1 THEN BoardSpot(0, 0, 0, <<RepairOccupant>>)
                                  ELSE EmptySpot(i - 1)]

RepairBoards ==
    {CanonicalBoard,
     SubSeq(CanonicalBoard, 1, 7),
     Append(CanonicalBoard, EmptySpot(8)),
     [CanonicalBoard EXCEPT ![8] = EmptySpot(9)],
     [CanonicalBoard EXCEPT ![6] = BoardSpot(5, 0, 0, <<>>)],
     [i \in 1..7 |-> IF i = 6 THEN BoardSpot(5, 0, 0, <<>>) ELSE CanonicalBoard[i]]}

RepairTurnManagers(ids) ==
    {[phaseActions |-> [p \in Range(ids) |-> FALSE], waitingForPlayers |-> ids],
     [phaseActions |-> [p \in Range(ids) |-> p = "player1"], waitingForPlayers |-> ids],
     [phaseActions |-> <<>>, waitingForPlayers |-> <<>>],
     [phaseActions |-> [p \in Range(ids) \cup {"guest"} |-> FALSE],
      waitingForPlayers |-> <<"guest">>],
     [phaseActions |-> [p \in (Range(ids) \ {"player1"}) \cup {"guest"} |-> p = "guest"],
      waitingForPlayers |-> ids]}

RepairInit ==
    \E n \in RepairPlayerCounts, lost \in BOOLEAN :
        LET players == createTestPlayers([i \in 1..n |-> "P"])
            ids == [i \in 1..n |-> players[i].id]
        IN
        /\ money = [p \in Range(ids) |-> StartingMoney]
        /\ points = [p \in Range(ids) |-> 0]
        /\ otakuPieces = [p \in Range(ids) |->
                IF lost /\ p = "player1"
                THEN Tail(players[1].otakuPieces)
                ELSE players[IndexOf(ids, p) + 1].otakuPieces]
        /\ selectedRewardCard = [p \in Range(ids) |-> Undefined]
        /\ oshikatsuDecision = [p \in Range(ids) |-> Undefined]
        /\ currentRound \in RepairRounds
        /\ currentPhase \in RepairPhases
        /\ activePlayerIndex \in RepairIndexes
        /\ spots \in RepairBoards
        /\ oshiPieces = createInitialOshiPieces
        /\ revealedCards = <<>>
        /\ roundHistory = <<>>
        /\ currentDiceResult = 0
        /\ \E t \in RepairTurnManagers(ids) :
              /\ phaseActions = t.phaseActions
              /\ waitingForPlayers = t.waitingForPlayers
        /\ currentPlayer = 0

RepairNext ==
    \/ RepairGameStateIfNeeded
    \/ \E p \in {"player1", "guest"}, b \in BOOLEAN : SetPlayerActionCompleted(p, b)

RepairSpec == RepairInit /\ [][RepairNext]_vars

IdsOfSession(gameSession) ==
    {gameSession.players[i].id : i \in 1..Len(gameSession.players)}

\* C33: repairGameState applied to any session returns a session whose active player
\* index is within range, whose completion-flag keys are exactly the current player
\* ids (existing values kept, missing players set to incomplete), whose waiting list is
\* exactly the players with a false flag, and whose board has exactly 8 spots with ids
\* 0..7 at row = id div 4, col = id mod 4, keeping the occupants of spots that already
\* matched by id; players, round, phase and round history are returned unchanged and
\* the input session is not modified.
C33_RepairGameState ==
    LET r == repairGameState(Session)
        out == r.returned
        ids == IdsOfSession(Session)
    IN
    /\ out.activePlayerIndex >= 0 /\ out.activePlayerIndex < Len(out.players)
    /\ DOMAIN out.phaseActions = ids
    /\ \A p \in ids :
          out.phaseActions[p] = IF p \in DOMAIN phaseActions THEN phaseActions[p] ELSE FALSE
    /\ Range(out.waitingForPlayers) = {p \in ids : ~out.phaseActions[p]}
    /\ Len(out.waitingForPlayers) = Cardinality(Range(out.waitingForPlayers))
    /\ Len(out.spots) = 8
    /\ \A i \in 1..Len(out.spots) :
          /\ out.spots[i].id = i - 1
          /\ out.spots[i].position = [row |-> (i - 1) \div 4, col |-> (i - 1) % 4]
          /\ \A k \in 1..Len(spots) :
                (spots[k].id = i - 1 /\ \A j \in 1..(k - 1) : spots[j].id # i - 1)
                    => out.spots[i].otakuPieces = spots[k].otakuPieces
    /\ out.players = Session.players
    /\ out.currentRound = currentRound
    /\ out.currentPhase = currentPhase
    /\ out.roundHistory = roundHistory
    /\ r.input = Session

\* the structural checks of a session, one by one
PlayerCountOk(gameSession) == Len(gameSession.players) \in 1..4
ActiveIndexOk(gameSession) ==
    gameSession.activePlayerIndex \in 0..(Len(gameSession.players) - 1)
RoundOk(gameSession) == gameSession.currentRound \in 1..TotalRounds
PhaseOk(gameSession) == gameSession.currentPhase \in GamePhases
BoardOk(gameSession) ==
    /\ Len(gameSession.spots) = NumSpots
    /\ \A i \in 1..Len(gameSession.spots) :
          gameSession.spots[i].position =
              [row |-> gameSession.spots[i].id \div 4, col |-> gameSession.spots[i].id % 4]
PiecesOk(gameSession) ==
    \A i \in 1..Len(gameSession.players) :
        Len(SelectSeq(gameSession.players[i].otakuPieces,
                      LAMBDA piece : ~piece.isKagebunshin)) = PiecesPerPlayer
FlagKeysOk(gameSession) == DOMAIN gameSession.phaseActions = IdsOfSession(gameSession)

\* C34: validateGameStateConsistency reports no error exactly when all structural
\* checks hold: player count in 1..4, active player index in range, round in 1..8,
\* phase one of the known phases, board of exactly 8 spots with row = id div 4 and
\* col = id mod 4, every player with exactly 4 non-clone pieces, and completion-flag
\* keys equal to the set of current player ids.
C34_ConsistencyCheckComplete ==
    validateGameStateConsistencyOf(Session) <=>
        /\ PlayerCountOk(Session)
        /\ ActiveIndexOk(Session)
        /\ RoundOk(Session)
        /\ PhaseOk(Session)
        /\ BoardOk(Session)
        /\ PiecesOk(Session)
        /\ FlagKeysOk(Session)

----------------------------------------------------------------------------
(* Claims on the price list *)

\* GOODS_PRICES, the exported price list
GOODS_PRICES ==
    [uchiwa |-> 2, penlight |-> 2, sashiire |-> 2, kagebunshin |-> 3]

\* C35: buying uchiwa, penlight or sashiire costs 2 money each and creating a
\* kagebunshin costs 3 money: each successful purchaseGoods reduces the buyer's money
\* by exactly 2 and each successful createKagebunshin reduces the creator's money by
\* exactly 3, and neither succeeds when the player has less than that price.
C35_PriceList ==
    [][/\ \A a \in BoardPurchaseArgs :
            (purchaseGoodsReturns(a[1], a[2]) /\ PurchaseGoods(a[1], a[2])) =>
                /\ money[a[1]] >= GOODS_PRICES[a[2]]
                /\ money'[a[1]] = money[a[1]] - GOODS_PRICES[a[2]]
       /\ \A a \in BoardCloneArgs :
            (createKagebunshinReturns(a[1], a[2]) /\ CreateKagebunshin(a[1], a[2], a[3])) =>
                /\ money[a[1]] >= GOODS_PRICES.kagebunshin
                /\ money'[a[1]] = money[a[1]] - GOODS_PRICES.kagebunshin]_vars

----------------------------------------------------------------------------
(* utils/dataPersistence.ts: saving and loading the session (PersistSpec).       *)
(* A Date is its time value in milliseconds.  A JSON text is the tree of values  *)
(* it denotes: JSON.stringify leaves out every property whose value is           *)
(* undefined, and a property that is absent reads as undefined after parsing.    *)

MsPerSecond == 1000
MsPerMinute == 60000
MsPerHour == 3600000
MsPerDay == 86400000
InvalidDate == -1

\* the Error a function throws instead of returning
Thrown == [error |-> "Error"]

\* mutant: the timestamp is written to the second
toISOStringSeconds(t) ==
    [year |-> 1970, month |-> 1, day |-> 1 + t \div MsPerDay,
     hour |-> (t % MsPerDay) \div MsPerHour,
     minute |-> (t % MsPerHour) \div MsPerMinute,
     second |-> (t % MsPerMinute) \div MsPerSecond,
     millisecond |-> 0]

\* Date.prototype.toISOString, YYYY-MM-DDTHH:mm:ss.sssZ, for the dates of January 1970
toISOString(t) ==
    [year |-> 1970, month |-> 1, day |-> 1 + t \div MsPerDay,
     hour |-> (t % MsPerDay) \div MsPerHour,
     minute |-> (t % MsPerHour) \div MsPerMinute,
     second |-> (t % MsPerMinute) \div MsPerSecond,
     millisecond |-> t % MsPerSecond]

\* new Date(isoString)
NewDate(iso) ==
    IF iso.year # 1970 \/ iso.month # 1 THEN InvalidDate
    ELSE (iso.day - 1) * MsPerDay + iso.hour * MsPerHour + iso.minute * MsPerMinute
         + iso.second * MsPerSecond + iso.millisecond

\* obj[key] === undefined, none being the value that stands for undefined
IsUndefined(obj, key, none) == key \notin DOMAIN obj \/ obj[key] = none

\* obj[key]
Read(obj, key, none) == IF key \in DOMAIN obj THEN obj[key] ELSE none

\* the properties JSON.stringify writes
Omit(obj, keys) == [k \in DOMAIN obj \ keys |-> obj[k]]

JsonPiece(piece) ==
    Omit(piece, {k \in {"boardSpotId"} : IsUndefined(piece, k, NoSpot)}
                 \cup {k \in {"goods"} : IsUndefined(piece, k, Undefined)})

JsonPlayer(player) ==
    Omit([player EXCEPT !.otakuPieces = [i \in DOMAIN @ |-> JsonPiece(@[i])]],
         {k \in {"selectedRewardCard", "oshikatsuDecision"} :
              IsUndefined(player, k, Undefined)})

JsonSpot(spot) ==
    Omit([spot EXCEPT !.otakuPieces = [i \in DOMAIN @ |-> JsonPiece(@[i])]],
         {k \in {"oshiPiece"} : IsUndefined(spot, k, NoOshi)})

JsonOshi(oshi) == Omit(oshi, {k \in {"currentSpotId"} : IsUndefined(oshi, k, NoSpot)})

\* JSON.stringify(serializable): the text written for a session
JsonSession(serializable) ==
    Omit([serializable EXCEPT
             !.players = [i \in DOMAIN @ |-> JsonPlayer(@[i])],
             !.spots = [i \in DOMAIN @ |-> JsonSpot(@[i])],
             !.oshiPieces = [o \in DOMAIN @ |-> JsonOshi(@[o])]],
         {k \in {"currentDiceResult"} : IsUndefined(serializable, k, 0)})

\* serializeGameState(gameSession); Thrown stands for the Error it throws
serializeGameState(gameSession) ==
    IF gameSession.createdAt = InvalidDate THEN Thrown
    ELSE JsonSession([gameSession EXCEPT !.createdAt = toISOString(@)])

\* deserializeGameState(jsonString); Thrown stands for the Error it throws
deserializeGameState(jsonString) ==
    IF jsonString = Thrown THEN Thrown
    ELSE IF jsonString.id = "" \/ "players" \notin DOMAIN jsonString
            \/ "createdAt" \notin DOMAIN jsonString
    THEN Thrown
    ELSE [jsonString EXCEPT !.createdAt = NewDate(@)]

ReadPiece(piece) ==
    [id |-> piece.id, playerId |-> piece.playerId,
     boardSpotId |-> Read(piece, "boardSpotId", NoSpot),
     goods |-> Read(piece, "goods", Undefined),
     isKagebunshin |-> piece.isKagebunshin]

\* the session a loaded object is when its properties are read
ReadSession(loaded) ==
    [id |-> loaded.id,
     createdAt |-> loaded.createdAt,
     players |-> [i \in DOMAIN loaded.players |->
                    [id |-> loaded.players[i].id,
                     money |-> loaded.players[i].money,
                     points |-> loaded.players[i].points,
                     otakuPieces |-> [j \in DOMAIN loaded.players[i].otakuPieces |->
                                         ReadPiece(loaded.players[i].otakuPieces[j])],
                     selectedRewardCard |->
                         Read(loaded.players[i], "selectedRewardCard", Undefined),
                     oshikatsuDecision |->
                         Read(loaded.players[i], "oshikatsuDecision", Undefined)]],
     currentRound |-> loaded.currentRound,
     currentPhase |-> loaded.currentPhase,
     activePlayerIndex |-> loaded.activePlayerIndex,
     spots |-> [i \in DOMAIN loaded.spots |->
                  [otakuPieces |-> [j \in DOMAIN loaded.spots[i].otakuPieces |->
                                       ReadPiece(loaded.spots[i].otakuPieces[j])],
                   oshiPiece |-> Read(loaded.spots[i], "oshiPiece", NoOshi)]],
     oshiPieces |-> [o \in DOMAIN loaded.oshiPieces |->
                       [id |-> loaded.oshiPieces[o].id,
                        currentSpotId |-> Read(loaded.oshiPieces[o], "currentSpotId", NoSpot)]],
     revealedCards |-> loaded.revealedCards,
     roundHistory |-> loaded.roundHistory,
     currentDiceResult |-> Read(loaded, "currentDiceResult", 0),
     phaseActions |-> loaded.phaseActions,
     waitingForPlayers |-> loaded.waitingForPlayers,
     currentPlayer |-> loaded.currentPlayer]

\* the session held in the state, created at time t
SessionCreatedAt(t) == [id |-> "game-1", createdAt |-> t] @@ Session

\* validateGameState(gameSession) of dataPersistence
validateGameState(gameSession) ==
    /\ gameSession.id # ""
    /\ Len(gameSession.players) >= 1 /\ Len(gameSession.players) <= 4
    /\ gameSession.currentRound >= 1 /\ gameSession.currentRound <= 8
    /\ gameSession.currentPhase \in GamePhases
    /\ \A i \in 1..Len(gameSession.players) :
          /\ gameSession.players[i].money >= 0 /\ gameSession.players[i].points >= 0
          /\ Len(gameSession.players[i].otakuPieces) # 0

\* the session is saved (saveGameToLocalStorage) and loaded again (loadSavedGame,
\* LOAD_SAVED_GAME)
SaveAndLoadGame(t) ==
    \E gameSession \in {SessionCreatedAt(t)} :
        IF ~validateGameState(gameSession) THEN UNCHANGED vars
        ELSE \E savedGame \in {serializeGameState(gameSession)} :
             \E loaded \in {deserializeGameState(savedGame)} :
                 IF loaded = Thrown THEN UNCHANGED vars
                 ELSE \E payload \in {ReadSession(loaded)} : LOAD_SAVED_GAME(payload)

CreatedAtValues == {0, 1, 999, 1000, 59999, 86399999, 86400000, 1234567890}

MaxPersistRound == 1

\* The rounds 1..MaxPersistRound are played as in HistoryNext, and at any moment the
\* session is saved and loaded again.
PersistNext ==
    \/ currentRound <= MaxPersistRound /\ HistoryNext
    \/ \E t \in CreatedAtValues : SaveAndLoadGame(t)

PersistSpec == Init /\ [][PersistNext]_vars

\* C36: for any valid session s, deserializeGameState(serializeGameState(s)) equals s
\* field for field, including the creation timestamp to millisecond precision, and
\* applying the round trip a second time yields the same value again.
C36_RoundTrip ==
    \A t \in CreatedAtValues :
        \A s \in {SessionCreatedAt(t)} :
            validateGameState(s) =>
                \A once \in {deserializeGameState(serializeGameState(s))} :
                    /\ once # Thrown
                    /\ ReadSession(once) = s
                    /\ once.createdAt = t
                    /\ \A twice \in {deserializeGameState(serializeGameState(once))} :
                          /\ twice = once
                          /\ ReadSession(twice) = s

\* a session with a piece carrying goods on the board, an oshi placed, a decision
\* taken, a history entry with fan-service results, and pieces and oshi that are not
\* placed
C36_Witness ==
    /\ Len(roundHistory) = 1
    /\ roundHistory[1].fansaResults # <<>>
    /\ \E i \in DOMAIN spots :
          /\ spots[i].otakuPieces # <<>>
          /\ spots[i].otakuPieces[1].goods # Undefined
          /\ spots[i].oshiPiece # NoOshi
    /\ \E o \in DOMAIN oshiPieces : oshiPieces[o] = NoSpot \/ oshiPieces[o] # NoSpot
    /\ \E p \in PlayerIdSet : oshikatsuDecision[p] # Undefined
    /\ \E p \in PlayerIdSet : selectedRewardCard[p] = Undefined

----------------------------------------------------------------------------
(* Claims on repeated labor rolls *)

\* C37: within one round each player's money is increased by a labor payout at most
\* once, and the die face recorded in that round's labor records is the one that
\* produced the payout, however many times rollDiceAndProcessLabor is invoked during
\* the labor phase: a roll in the labor phase pays nothing to a player whom the round's
\* labor record already shows as paid, and leaves that record as it is.
C37_LaborPaidOncePerRound ==
    [][\A d \in HistoryDice :
          (currentPhase = "labor" /\ RollDiceAndProcessLabor(d)) =>
              \A p \in PlayerIdSet :
                  RecordedPayout(p) > 0 =>
                      /\ money'[p] <= money[p]
                      /\ RecordedPayout(p)' = RecordedPayout(p)]_vars

----------------------------------------------------------------------------
(* Claims on fan-service scoring without a full reveal *)

\* placeFansaOshiPieces(revealedCards, diceResults) throws an Error, which leaves the
\* reducer and the dispatch of PROCESS_FANSA_TIME uncaught
placeFansaOshiPiecesThrows(cards, diceResults) == Len(cards) # 3 \/ Len(diceResults) # 3

\* C38: processFansaTimePhase invoked when fewer than 3 fanservice cards are revealed
\* (before generateFanserviceSpotCards, or after endRound has cleared the reveal) is
\* rejected without throwing and leaves the session unchanged: no points are added, no
\* oshi is placed and the phase does not change.
C38_RejectedWithoutThrowing ==
    /\ [](Len(revealedCards) < 3 =>
            \A d \in TurnDice : ~placeFansaOshiPiecesThrows(revealedCards, d))
    /\ [][\A d \in TurnDice :
            (Len(revealedCards) < 3 /\ ProcessFansaTimePhase(d)) =>
                UNCHANGED <<points, oshiPieces, spots, currentPhase>>]_vars

----------------------------------------------------------------------------
(* Claims on the oshi markers and the board after fan-service scoring *)

\* the marker o as the board would hold it: the OshiPiece with its current spot
OshiPieceAt(o, s) == [id |-> o, currentSpotId |-> s]

\* C39: after processFansaTimePhase the oshi markers and the board agree: for every
\* oshi marker whose current spot is s, the oshi field of spot s holds that marker, and
\* every spot whose oshi field is set names a marker whose current spot is that spot,
\* including when two or three oshi land on the same spot.
C39_OshiAndBoardAgree ==
    [][\A d \in TurnDice :
          (Len(revealedCards) = 3 /\ ProcessFansaTimePhase(d)) =>
              /\ \A o \in Range(OshiIds) :
                    oshiPieces'[o] \in SpotIds =>
                        spots'[oshiPieces'[o]].oshiPiece = OshiPieceAt(o, oshiPieces'[o])
              /\ \A s \in SpotIds :
                    spots'[s].oshiPiece # NoOshi =>
                        /\ spots'[s].oshiPiece.id \in Range(OshiIds)
                        /\ oshiPieces'[spots'[s].oshiPiece.id] = s
                        /\ spots'[s].oshiPiece.currentSpotId = s]_vars

----------------------------------------------------------------------------
(* components/game/LaborPhase: the dice roll of the labor panel (PanelSpec) *)

\* LaborPhase.handleRollDice, diceResult = gameState.currentDiceResult (undefined is 0
\* here, a die never shows 0): the roll is made only when every player is ready and
\* the session holds no dice result
handleRollDice(d) ==
    IF areAllPlayersReady /\ currentDiceResult = 0
    THEN RollDiceAndProcessLabor(d)
    ELSE UNCHANGED vars

MaxPanelRound == 1
PanelCardArgs == {"card-A", "card-F"}

\* The rounds as they are played through the panels: the cards are selected and the
\* die is rolled from the labor panel, the phases are stepped through, the cards of
\* fansa-time are revealed and scored.
PanelNext ==
    \/ currentRound <= MaxPanelRound /\ NextPhase
    \/ currentPhase = "labor"
          /\ \E p \in PlayerIdSet, c \in PanelCardArgs : SelectRewardCard(p, c)
    \/ currentPhase = "labor" /\ \E d \in HistoryDice : handleRollDice(d)
    \/ currentPhase = "fansa-time" /\ GenerateFanserviceSpotCards(TurnDraw)
    \/ currentPhase = "fansa-time" /\ ProcessFansaTimePhase(HistoryFansaDice)

PanelSpec == Init /\ [][PanelNext]_vars

\* C40: in the labor phase of every round 1..8, once all players have selected a card
\* the dice roll of the labor panel is enabled and performs rollDiceAndProcessLabor; a
\* dice result left in the session by the labor roll or the fan-service scoring of an
\* earlier round never blocks the roll of a later round.
C40_LaborRollNeverBlocked ==
    (/\ currentPhase = "labor"
     /\ currentRound \in 1..TotalRounds
     /\ \A p \in PlayerIdSet : selectedRewardCard[p] # Undefined
     /\ areAllPlayersReady
     /\ ~HasRound(roundHistory, currentRound)) =>
        \A d \in HistoryDice : ENABLED <<handleRollDice(d)>>_vars

====
